---- MODULE Spec2Model ----
(***************************************************************************)
(* Marble race simulator (BaftKingsBortsBook): the simulation manager, its *)
(* run loops, terrain set-up, the game mode's win check and the physics    *)
(* engine step, as state machines translated from the Python source.       *)
(*                                                                         *)
(* Units.  Time is counted in thirds of a millisecond, so that both the    *)
(* fixed timestep (1/60 s = 50 units) and the whole milliseconds returned  *)
(* by the frame clock are integers.  Lengths are in sixtieths of a pixel,  *)
(* so a velocity in pixels per second is the same number of length units   *)
(* per fixed timestep: MARBLE_SPEED is 175, MARBLE_RADIUS = 15 px is 900,  *)
(* and x += velocity_x * dt is exact integer arithmetic.                   *)
(* Directions are taken on the 3-4-5 lattice so that sqrt(vx^2 + vy^2) is  *)
(* computed exactly.                                                       *)
(***************************************************************************)
EXTENDS Integers, Sequences, FiniteSets, TLC

VARIABLES
    \* SimulationManager (simulation/manager.py)
    simulation_time, game_finished, winner_marble_id, marbles,
    \* IndivRaceGameMode (game_modes/indiv_race.py)
    spawn_zone, goal_zone, gm_winner_marble_id,
    \* PhysicsEngine (physics/engine.py)
    bodies, frame_counter,
    \* rng module: number of draws made from the seeded random stream
    rngPos,
    \* run loop position (simulation/runner.py) and the exception in flight
    mode, pc, running, accumulator, raised,
    \* history of the calls made, kept for the properties
    updateCalls, lastResult,
    \* SimulationManager construction (manager.py __init__, _generate_valid_terrain)
    spc, terrain_candidates, terrain_generator, terrain_obstacles, engine_created,
    \* history of the construction: terrains generated, candidates validated in
    \* order, the stream position at the end of the batch, the draws of the
    \* last validation, and the candidate the zones were computed on
    generated, validated, batchEndPos, lastValidationDraws, zonesFrom,
    \* two independent runs of the program from one seed
    runs,
    \* a terrain height field on its grid, for the terrain and collision code
    height_field,
    \* start-up: the command line main parsed, SimulationConfig's runtime
    \* overrides, the fields SimulationManager.__init__ read from the config,
    \* and the rng module's global _rng_config
    cli_args, runtime, manager_config, rng_config,
    \* the wave of _can_reach_via_wave_simulation: its arguments, queue and visited set
    wave

managerVars == <<simulation_time, game_finished, winner_marble_id, marbles>>
gameModeVars == <<spawn_zone, goal_zone, gm_winner_marble_id>>
engineVars == <<bodies, frame_counter, rngPos>>
runnerVars == <<mode, pc, running, accumulator>>
setupVars == <<spc, terrain_candidates, terrain_generator, terrain_obstacles, engine_created,
               generated, validated, batchEndPos, lastValidationDraws, zonesFrom>>
detVars == <<runs>>
terrainVars == <<height_field>>
startVars == <<cli_args, runtime, manager_config, rng_config>>
waveVars == <<wave>>

----------------------------------------------------------------------------
(* Program constants.                                                      *)
TimeUnitsPerSecond == 3000
LengthUnitsPerPixel == 60
MARBLE_RADIUS == 900
MARBLE_SPEED == 175
StuckCheckInterval == 10
MaxAttempts == 50
ARENA_WIDTH == 76800
ARENA_HEIGHT == 57600
BoundaryTolerance == 6
StartTime == -3 * TimeUnitsPerSecond
FIXED_TIMESTEP == TimeUnitsPerSecond \div 60

(* Bounds of the model.                                                    *)
MaxUpdateCalls == 3
MaxFrames == 10
ArenaSize == 175
MaxRoot == 400

MarbleCounts == {1, 2, 4}
(* clock.tick returns whole milliseconds: a 4 ms frame at GRAPHICS_FPS =   *)
(* 240, a 17 ms frame, and a one-second stall.                             *)
FrameDts == {12, 51, 3000}

----------------------------------------------------------------------------
(* Optional values: None and a present value.                              *)
None == <<>>
Some(v) == <<v>>
IsSome(o) == o # None
Get(o) == o[1]

Abs(n) == IF n < 0 THEN -n ELSE n

(* math.sqrt: exact on the perfect squares the lattice produces, the floor *)
(* of the root elsewhere.                                                  *)
RECURSIVE SqrtBetween(_, _, _)
SqrtBetween(n, lo, hi) ==
    IF lo >= hi THEN lo
    ELSE LET mid == (lo + hi + 1) \div 2
         IN  IF mid * mid <= n THEN SqrtBetween(n, mid, hi) ELSE SqrtBetween(n, lo, mid - 1)
Sqrt(n) == SqrtBetween(n, 0, MaxRoot)

(* The twelve directions of the 3-4-5 lattice, counter-clockwise from the  *)
(* positive x axis, as 5*(cos, sin).                                       *)
Ring == << <<5, 0>>, <<4, 3>>, <<3, 4>>, <<0, 5>>, <<-3, 4>>, <<-4, 3>>,
           <<-5, 0>>, <<-4, -3>>, <<-3, -4>>, <<0, -5>>, <<3, -4>>, <<4, -3>> >>

Dot(i, x, y) == Ring[i][1] * x + Ring[i][2] * y

(* math.atan2(y, x) as the index of the nearest lattice direction;         *)
(* atan2(0, 0) is 0, the first direction.                                  *)
Atan2(y, x) ==
    IF x = 0 /\ y = 0 THEN 1
    ELSE CHOOSE i \in 1..12 :
            /\ \A j \in 1..12 : Dot(j, x, y) <= Dot(i, x, y)
            /\ \A j \in 1..(i - 1) : Dot(j, x, y) < Dot(i, x, y)

(* angle + k lattice steps.                                                *)
Turn(i, k) == ((i - 1 + k) % 12) + 1

(* (cos(angle) * speed, sin(angle) * speed) for a lattice direction.       *)
Polar(i, speed) == <<(Ring[i][1] * speed) \div 5, (Ring[i][2] * speed) \div 5>>

----------------------------------------------------------------------------
(* Marble (physics/marble.py).                                             *)

(* velocity * dt, in length units.                                         *)
Displacement(v, dt) == (v * dt * LengthUnitsPerPixel) \div TimeUnitsPerSecond

(* initial_angle = 2*pi*i/num_marbles is a whole number of quarter turns   *)
(* for the marble counts of the model; a quarter turn is 3 lattice steps.  *)
Marble(x, y, radius, speed, quarterTurns) ==
    [x |-> x, y |-> y, radius |-> radius, speed |-> speed,
     velocity_x |-> Polar(Turn(1, 3 * quarterTurns), speed)[1],
     velocity_y |-> Polar(Turn(1, 3 * quarterTurns), speed)[2]]

(* Signature of Marble.update, and the arguments SimulationManager.update  *)
(* passes to it: a call with the wrong number of arguments raises          *)
(* TypeError before the body runs.                                         *)
MarbleUpdateParams == <<"dt", "arena_width", "arena_height">>
MarbleUpdateCallArgs == <<"dt">>
CallRaises(args, params) == Len(args) # Len(params)

(* Marble.update: advance, then clamp and reflect at the arena boundary.   *)
MarbleUpdate(m, dt, arena_width, arena_height) ==
    LET x1 == m.x + Displacement(m.velocity_x, dt)
        y1 == m.y + Displacement(m.velocity_y, dt)
        left == x1 - m.radius < BoundaryTolerance
        right == ~left /\ x1 + m.radius > arena_width - BoundaryTolerance
        top == y1 - m.radius < BoundaryTolerance
        bottom == ~top /\ y1 + m.radius > arena_height - BoundaryTolerance
    IN  [m EXCEPT
          !.x = IF left THEN m.radius + BoundaryTolerance
                ELSE IF right THEN arena_width - m.radius - BoundaryTolerance
                ELSE x1,
          !.y = IF top THEN m.radius + BoundaryTolerance
                ELSE IF bottom THEN arena_height - m.radius - BoundaryTolerance
                ELSE y1,
          !.velocity_x = IF (left /\ m.velocity_x < 0) \/ (right /\ m.velocity_x > 0)
                         THEN -m.velocity_x ELSE m.velocity_x,
          !.velocity_y = IF (top /\ m.velocity_y < 0) \/ (bottom /\ m.velocity_y > 0)
                         THEN -m.velocity_y ELSE m.velocity_y]

Speed(vx, vy) == Sqrt(vx * vx + vy * vy)

----------------------------------------------------------------------------
(* Zone and IndivRaceGameMode (game_modes/base.py, indiv_race.py).         *)

Zone(cx, cy, r) == [center_x |-> cx, center_y |-> cy, radius |-> r]

(* contains_point with a strict comparison: the rim is outside.            *)
contains_point_Mut(z, x, y) ==
    LET d2 == (x - z.center_x) * (x - z.center_x) + (y - z.center_y) * (y - z.center_y)
    IN  z.radius >= 0 /\ d2 < z.radius * z.radius

(* Zone.contains_point: sqrt(dx^2 + dy^2) <= radius, exactly.              *)
contains_point(z, x, y) ==
    LET d2 == (x - z.center_x) * (x - z.center_x) + (y - z.center_y) * (y - z.center_y)
    IN  z.radius >= 0 /\ d2 <= z.radius * z.radius

(* The loop of check_win_condition from index i (1-based here): the id     *)
(* (0-based, as enumerate gives it) of the first marble inside the zone.   *)
RECURSIVE FirstInside(_, _, _)
FirstInside(z, ms, i) ==
    IF i > Len(ms) THEN None
    ELSE IF contains_point(z, ms[i].x, ms[i].y) THEN Some(i - 1)
    ELSE FirstInside(z, ms, i + 1)

(* check_win_condition: the result, the winner id and the handler's        *)
(* winner_marble_id after the call.                                        *)
check_win_condition(gz, ms, handlerWinner) ==
    IF gz = None
    THEN [result |-> "ERROR", winner_id |-> None, handler |-> handlerWinner]
    ELSE LET w == FirstInside(Get(gz), ms, 1)
         IN  IF IsSome(w)
             THEN [result |-> "WINNER", winner_id |-> w, handler |-> w]
             ELSE [result |-> "ONGOING", winner_id |-> None, handler |-> handlerWinner]

----------------------------------------------------------------------------
(* PhysicsEngine (physics/engine.py).  bodies[i] is the pymunk body        *)
(* registered for marble id i - 1: marble_to_body maps the id to it and    *)
(* body_to_marble maps it back to the marble object at that index.         *)

(* add_marble: the body takes the marble's position and velocity.          *)
add_marble(m) ==
    [position_x |-> m.x, position_y |-> m.y,
     velocity_x |-> m.velocity_x, velocity_y |-> m.velocity_y]

(* _sync_marbles_to_physics: re-register everything when the counts        *)
(* differ, otherwise leave the bodies as they are.                         *)
sync_marbles_to_physics(bs, ms) ==
    IF Len(bs) # Len(ms) THEN [i \in 1..Len(ms) |-> add_marble(ms[i])] ELSE bs

(* pymunk's Space.step is library code.  A body that touches nothing moves *)
(* by velocity * dt and keeps its velocity; a body in contact stays inside *)
(* the arena and leaves with whatever velocity the solver gives it, of any *)
(* magnitude.                                                              *)
ContactVelocities ==
    { <<0, 0>>, <<350, 0>>, <<0, 175>>, <<3, 4>>, <<-210, -280>> }

InArena(x, y, w, h) == x >= 0 /\ x <= w /\ y >= 0 /\ y <= h

FreeFlight(b, dt) ==
    [b EXCEPT !.position_x = b.position_x + Displacement(b.velocity_x, dt),
              !.position_y = b.position_y + Displacement(b.velocity_y, dt)]

BodyOutcomes(b, dt, w, h) ==
    { f \in {FreeFlight(b, dt)} : InArena(f.position_x, f.position_y, w, h) }
    \cup { [b EXCEPT !.velocity_x = v[1], !.velocity_y = v[2]] : v \in ContactVelocities }

SpaceStep(bs, dt, w, h) ==
    LET all == UNION { BodyOutcomes(bs[i], dt, w, h) : i \in 1..Len(bs) }
    IN  { s \in [1..Len(bs) -> all] : \A i \in 1..Len(bs) : s[i] \in BodyOutcomes(bs[i], dt, w, h) }

(* _check_and_fix_stuck_bouncing's test: the body moves (0.1 px/s or more  *)
(* on some axis) within 2 degrees of horizontal or of vertical;            *)
(* tan(2 deg) is taken as 349/10000.                                       *)
IsStuck_Mut(b) == ~(b.velocity_x = 0 /\ b.velocity_y = 0)
IsStuck(b) ==
    /\ ~(b.velocity_x = 0 /\ b.velocity_y = 0)
    /\ \/ Abs(b.velocity_y) * 10000 < Abs(b.velocity_x) * 349
       \/ Abs(b.velocity_x) * 10000 < Abs(b.velocity_y) * 349

(* _add_velocity_variation: turn the velocity by 2 to 5 degrees, the sign  *)
(* drawn from the stream, at target_speed; on the lattice the turn is one  *)
(* step to a neighbouring direction.                                       *)
add_velocity_variation(b, target_speed, sign) ==
    LET new_angle == Turn(Atan2(b.velocity_y, b.velocity_x), sign)
    IN  [b EXCEPT !.velocity_x = Polar(new_angle, target_speed)[1],
                  !.velocity_y = Polar(new_angle, target_speed)[2]]

(* The bodies after _check_and_fix_stuck_bouncing, one per choice of signs *)
(* the stream can make, and the number of draws it makes (two per stuck    *)
(* body).                                                                  *)
check_and_fix_stuck_bouncing(bs, ms) ==
    { [i \in 1..Len(bs) |->
          IF IsStuck(bs[i]) THEN add_velocity_variation(bs[i], ms[i].speed, signs[i]) ELSE bs[i]]
      : signs \in [1..Len(bs) -> {-1, 1}] }

StuckDraws(bs) == 2 * Cardinality({ i \in 1..Len(bs) : IsStuck(bs[i]) })

(* The restore loop of update_physics for one body: the velocity at the    *)
(* marble's speed, or the position-derived direction when the body has     *)
(* (nearly) stopped.                                                       *)
RestoredVelocity_Mut(b, target_speed) == <<b.velocity_x, b.velocity_y>>
RestoredVelocity(b, target_speed) ==
    LET speed == Speed(b.velocity_x, b.velocity_y)
    IN  IF speed > 0
        THEN <<(b.velocity_x * target_speed) \div speed, (b.velocity_y * target_speed) \div speed>>
        ELSE Polar(Turn(Atan2(b.position_y, b.position_x), 2), target_speed)

RestoreBody(b, m) ==
    [b EXCEPT !.velocity_x = RestoredVelocity(b, m.speed)[1],
              !.velocity_y = RestoredVelocity(b, m.speed)[2]]

RestoreMarble_Mut(b, m) ==
    [m EXCEPT !.velocity_x = RestoredVelocity(b, m.speed)[1],
              !.velocity_y = RestoredVelocity(b, m.speed)[2]]
RestoreMarble(b, m) ==
    [m EXCEPT !.x = b.position_x, !.y = b.position_y,
              !.velocity_x = RestoredVelocity(b, m.speed)[1],
              !.velocity_y = RestoredVelocity(b, m.speed)[2]]

(* update_physics(dt, marbles): every state the call can leave behind.     *)
update_physics(dt, ms, bs, fc, rp, w, h) ==
    LET synced == sync_marbles_to_physics(bs, ms)
        counter == fc + 1
        check == counter % StuckCheckInterval = 0
    IN  UNION { { [bodies |-> [i \in 1..Len(fixed) |-> RestoreBody(fixed[i], ms[i])],
                   marbles |-> [i \in 1..Len(fixed) |-> RestoreMarble(fixed[i], ms[i])],
                   frame_counter |-> counter,
                   rngPos |-> IF check THEN rp + StuckDraws(stepped) ELSE rp]
                  : fixed \in IF check THEN check_and_fix_stuck_bouncing(stepped, ms) ELSE {stepped} }
                : stepped \in SpaceStep(synced, dt, w, h) }

----------------------------------------------------------------------------
(* SimulationManager (simulation/manager.py).                              *)

vars == <<simulation_time, game_finished, winner_marble_id, marbles,
          spawn_zone, goal_zone, gm_winner_marble_id, bodies, frame_counter, rngPos,
          mode, pc, running, accumulator, raised, updateCalls, lastResult,
          spc, terrain_candidates, terrain_generator, terrain_obstacles, engine_created,
          generated, validated, batchEndPos, lastValidationDraws, zonesFrom, runs,
          height_field, cli_args, runtime, manager_config, rng_config, wave>>

(* __init__ with the winner preset to marble 0 instead of None.            *)
ManagerInit_Mut ==
    /\ simulation_time = StartTime
    /\ game_finished = FALSE
    /\ winner_marble_id = Some(0)

(* The fields __init__ sets before terrain generation.                     *)
ManagerInit ==
    /\ simulation_time = StartTime
    /\ game_finished = FALSE
    /\ winner_marble_id = None

(* update without its early return.                                        *)
UpdateReturnsEarly_Mut == FALSE

(* The early return at the top of update.                                  *)
UpdateReturnsEarly == game_finished

(* A clock that update leaves where it was.                                *)
AdvanceClock_Mut(time, dt) == time

(* self.simulation_time += dt                                              *)
AdvanceClock(time, dt) == time + dt

(* update(dt).  The early return when the race is finished; otherwise the  *)
(* clock advances, every marble is updated (the call raises TypeError on   *)
(* the first marble), the physics engine steps and the win check runs.     *)
update(dt) ==
    /\ updateCalls' = updateCalls + 1
    /\ IF UpdateReturnsEarly
       THEN UNCHANGED <<managerVars, gameModeVars, engineVars, raised, lastResult>>
       ELSE /\ simulation_time' = AdvanceClock(simulation_time, dt)
            /\ IF Len(marbles) > 0 /\ CallRaises(MarbleUpdateCallArgs, MarbleUpdateParams)
               THEN /\ raised' = "TypeError"
                    /\ UNCHANGED <<game_finished, winner_marble_id, marbles,
                                   gameModeVars, engineVars, lastResult>>
               ELSE LET moved == [i \in 1..Len(marbles) |->
                                     MarbleUpdate(marbles[i], dt, ARENA_WIDTH, ARENA_HEIGHT)]
                    IN  \E p \in update_physics(dt, moved, bodies, frame_counter, rngPos,
                                                ARENA_WIDTH, ARENA_HEIGHT) :
                          LET win == check_win_condition(goal_zone, p.marbles, gm_winner_marble_id)
                          IN  /\ marbles' = p.marbles
                              /\ bodies' = p.bodies
                              /\ frame_counter' = p.frame_counter
                              /\ rngPos' = p.rngPos
                              /\ gm_winner_marble_id' = win.handler
                              /\ lastResult' = Some(<<win.result, win.winner_id>>)
                              /\ game_finished' = (game_finished \/ win.result = "WINNER")
                              /\ winner_marble_id' = IF win.result = "WINNER" THEN win.winner_id
                                                     ELSE winner_marble_id
                              /\ UNCHANGED <<spawn_zone, goal_zone, raised>>

----------------------------------------------------------------------------
(* The run loops (simulation/runner.py) over a constructed manager.        *)

ZoneCentres == { <<9600, 9600>>, <<38400, 28800>>, <<60000, 48000>> }

(* A state construction can end in: zones of the validator's sizes, the    *)
(* marbles inside the spawn zone with the headings _initialize_marbles     *)
(* gives them, nothing registered with the engine yet.                    *)
Constructed ==
    /\ ManagerInit
    /\ \E sc \in ZoneCentres, n \in MarbleCounts :
          \E gc \in ZoneCentres \ {sc} :
            /\ spawn_zone = Some(Zone(sc[1], sc[2], MARBLE_RADIUS * 4))
            /\ goal_zone = Some(Zone(gc[1], gc[2], MARBLE_RADIUS * 3))
            /\ marbles = [i \in 1..n |->
                            Marble(sc[1] + Polar(Turn(1, 3 * (i - 1)), 2000)[1],
                                   sc[2] + Polar(Turn(1, 3 * (i - 1)), 2000)[2],
                                   MARBLE_RADIUS, MARBLE_SPEED, (4 * (i - 1)) \div n)]
    /\ gm_winner_marble_id = None
    /\ bodies = <<>>
    /\ frame_counter = 0
    /\ rngPos = 0

(* The construction and two-run variables when the model is not about them. *)
SetupIdle ==
    /\ spc = "constructed"
    /\ terrain_candidates = <<>>
    /\ terrain_generator = None
    /\ terrain_obstacles = None
    /\ engine_created = TRUE
    /\ generated = 0
    /\ validated = <<>>
    /\ batchEndPos = 0
    /\ lastValidationDraws = 0
    /\ zonesFrom = None

DetIdle == runs = <<>>

TerrainIdle == height_field = <<>>

(* Nothing configured through the command line: the class defaults.        *)
StartIdle ==
    /\ cli_args = <<>>
    /\ runtime = <<>>
    /\ manager_config = <<>>
    /\ rng_config = <<>>
    /\ wave = <<>>

Init ==
    /\ Constructed
    /\ SetupIdle
    /\ DetIdle
    /\ TerrainIdle
    /\ StartIdle
    /\ mode \in {"headless", "graphics"}
    /\ pc = "start"
    /\ running = TRUE
    /\ accumulator = 0
    /\ raised = ""
    /\ updateCalls = 0
    /\ lastResult = None

(* run_headless_mode resets the clock before its countdown; the graphics   *)
(* loop starts from the clock __init__ set.                                *)
StartCountdown ==
    /\ pc = "start"
    /\ pc' = "countdown"
    /\ simulation_time' = IF mode = "headless" THEN StartTime ELSE simulation_time
    /\ UNCHANGED <<game_finished, winner_marble_id, marbles, gameModeVars, engineVars,
                   mode, running, accumulator, raised, updateCalls, lastResult>>
    /\ UNCHANGED <<setupVars, detVars, terrainVars, startVars, waveVars>>

(* Countdown loops that stop one timestep early.                           *)
CountdownCond_Mut == IF mode = "headless" THEN simulation_time < -FIXED_TIMESTEP
                     ELSE running /\ simulation_time < -FIXED_TIMESTEP

(* The loop conditions of the two countdown loops.                         *)
CountdownCond == IF mode = "headless" THEN simulation_time < 0
                 ELSE running /\ simulation_time < 0

(* One countdown iteration: the clock advances and the frame is rendered.  *)
CountdownTick ==
    /\ pc = "countdown"
    /\ CountdownCond
    /\ \/ /\ mode = "headless"
          /\ simulation_time' = simulation_time + FIXED_TIMESTEP
          /\ UNCHANGED running
       \/ /\ mode = "graphics"
          /\ \E frame_dt \in FrameDts, events_ok \in BOOLEAN :
                /\ running' = events_ok
                /\ simulation_time' = simulation_time + frame_dt
    /\ UNCHANGED <<game_finished, winner_marble_id, marbles, gameModeVars, engineVars,
                   mode, pc, accumulator, raised, updateCalls, lastResult>>
    /\ UNCHANGED <<setupVars, detVars, terrainVars, startVars, waveVars>>

CountdownEnd ==
    /\ pc = "countdown"
    /\ ~CountdownCond
    /\ pc' = "running"
    /\ UNCHANGED <<managerVars, gameModeVars, engineVars, mode, running, accumulator,
                   raised, updateCalls, lastResult>>
    /\ UNCHANGED <<setupVars, detVars, terrainVars, startVars, waveVars>>

MainLoopCond == IF mode = "headless" THEN ~game_finished
                ELSE running /\ ~game_finished

(* One iteration of the headless main loop: a single update(dt).           *)
HeadlessStep ==
    /\ pc = "running"
    /\ mode = "headless"
    /\ MainLoopCond
    /\ update(FIXED_TIMESTEP)
    /\ pc' = IF raised' # "" THEN "crashed" ELSE "running"
    /\ UNCHANGED <<mode, running, accumulator>>
    /\ UNCHANGED <<setupVars, detVars, terrainVars, startVars, waveVars>>

(* A graphics frame: the accumulator takes the frame time and the events   *)
(* are polled; then update(fixed_dt) runs while a whole timestep is left.  *)
GraphicsFrame ==
    /\ pc = "running"
    /\ mode = "graphics"
    /\ MainLoopCond
    /\ \E frame_dt \in FrameDts, events_ok \in BOOLEAN :
          /\ accumulator' = accumulator + frame_dt
          /\ running' = events_ok
    /\ pc' = "updating"
    /\ UNCHANGED <<managerVars, gameModeVars, engineVars, mode, raised, updateCalls, lastResult>>
    /\ UNCHANGED <<setupVars, detVars, terrainVars, startVars, waveVars>>

GraphicsUpdate ==
    /\ pc = "updating"
    /\ accumulator >= FIXED_TIMESTEP
    /\ update(FIXED_TIMESTEP)
    /\ IF raised' # ""
       THEN pc' = "crashed" /\ UNCHANGED accumulator
       ELSE pc' = "updating" /\ accumulator' = accumulator - FIXED_TIMESTEP
    /\ UNCHANGED <<mode, running>>
    /\ UNCHANGED <<setupVars, detVars, terrainVars, startVars, waveVars>>

GraphicsFrameEnd ==
    /\ pc = "updating"
    /\ accumulator < FIXED_TIMESTEP
    /\ pc' = "running"
    /\ UNCHANGED <<managerVars, gameModeVars, engineVars, mode, running, accumulator,
                   raised, updateCalls, lastResult>>
    /\ UNCHANGED <<setupVars, detVars, terrainVars, startVars, waveVars>>

(* The main loop ends; the victory freeze that follows only renders.       *)
MainLoopEnd ==
    /\ pc = "running"
    /\ ~MainLoopCond
    /\ pc' = "done"
    /\ UNCHANGED <<managerVars, gameModeVars, engineVars, mode, running, accumulator,
                   raised, updateCalls, lastResult>>
    /\ UNCHANGED <<setupVars, detVars, terrainVars, startVars, waveVars>>

Next ==
    \/ StartCountdown
    \/ CountdownTick
    \/ CountdownEnd
    \/ HeadlessStep
    \/ GraphicsFrame
    \/ GraphicsUpdate
    \/ GraphicsFrameEnd
    \/ MainLoopEnd

Spec == Init /\ [][Next]_vars

----------------------------------------------------------------------------
(* SimulationManager.update called on a manager whose zones and marbles    *)
(* were placed by hand, in any state of the race.                          *)

UpdateDts == {FIXED_TIMESTEP, 2 * FIXED_TIMESTEP}
HandGoal == Zone(38400, 28800, MARBLE_RADIUS * 3)
HandSpawn == Zone(9600, 9600, MARBLE_RADIUS * 4)
HandMarbles ==
    { Marble(c[1], c[2], MARBLE_RADIUS, MARBLE_SPEED, q) :
        c \in { <<HandGoal.center_x, HandGoal.center_y>>, <<HandSpawn.center_x, HandSpawn.center_y>> },
        q \in {0, 1} }

InitUpdate ==
    /\ SetupIdle
    /\ DetIdle
    /\ TerrainIdle
    /\ StartIdle
    /\ spawn_zone = Some(HandSpawn)
    /\ goal_zone = Some(HandGoal)
    /\ gm_winner_marble_id = None
    /\ marbles \in UNION { [1..n -> HandMarbles] : n \in 0..2 }
    /\ simulation_time \in {0, TimeUnitsPerSecond \div 2}
    /\ game_finished \in BOOLEAN
    /\ winner_marble_id \in IF game_finished THEN { Some(i - 1) : i \in 1..Len(marbles) } ELSE {None}
    /\ bodies = <<>>
    /\ frame_counter = 0
    /\ rngPos = 0
    /\ mode = "harness"
    /\ pc = "harness"
    /\ running = TRUE
    /\ accumulator = 0
    /\ raised = ""
    /\ updateCalls = 0
    /\ lastResult = None

CallUpdate ==
    /\ updateCalls < MaxUpdateCalls
    /\ \E dt \in UpdateDts : update(dt)
    /\ UNCHANGED <<runnerVars, setupVars, detVars, terrainVars, startVars, waveVars>>

NextUpdate == CallUpdate

SpecUpdate == InitUpdate /\ [][NextUpdate]_vars

----------------------------------------------------------------------------
(* IndivRaceGameMode.check_win_condition on any marble list.               *)

WinPositions == { <<0, 0>>, <<3, 4>>, <<4, 4>>, <<6, 0>> }
WinMarbles == { Marble(c[1], c[2], 1, 5, 0) : c \in WinPositions }

InitWin ==
    /\ SetupIdle
    /\ DetIdle
    /\ TerrainIdle
    /\ StartIdle
    /\ spawn_zone = None
    /\ goal_zone \in {None, Some(Zone(0, 0, 5))}
    /\ gm_winner_marble_id = None
    /\ marbles \in UNION { [1..n -> WinMarbles] : n \in 0..3 }
    /\ simulation_time = 0
    /\ game_finished = FALSE
    /\ winner_marble_id = None
    /\ bodies = <<>>
    /\ frame_counter = 0
    /\ rngPos = 0
    /\ mode = "harness"
    /\ pc = "harness"
    /\ running = TRUE
    /\ accumulator = 0
    /\ raised = ""
    /\ updateCalls = 0
    /\ lastResult = None

CheckWin ==
    /\ pc = "harness"
    /\ LET win == check_win_condition(goal_zone, marbles, gm_winner_marble_id)
       IN  /\ lastResult' = Some(<<win.result, win.winner_id>>)
           /\ gm_winner_marble_id' = win.handler
    /\ pc' = "checked"
    /\ UNCHANGED <<managerVars, spawn_zone, goal_zone, engineVars, mode, running, accumulator,
                   raised, updateCalls, setupVars, detVars, terrainVars, startVars, waveVars>>

NextWin == CheckWin

SpecWin == InitWin /\ [][NextWin]_vars

----------------------------------------------------------------------------
(* SimulationManager.__init__ from the terrain generation on: the batch of *)
(* candidates, their validation in order, the engine and the marbles.      *)

ValidatorMaxAttempts == 500
SpawnMaxAttempts == 50
ColourDraws == 3
TERRAIN_COMPLEXITY_PCT == 88
NumChannels == IF (300 + 8 * TERRAIN_COMPLEXITY_PCT) \div 100 > 2
               THEN (300 + 8 * TERRAIN_COMPLEXITY_PCT) \div 100 ELSE 2
ChannelLength == (3000 + 60 * TERRAIN_COMPLEXITY_PCT) \div 100

(* Attempts the validator needs before a position is clear.                *)
SpawnTries == {1, 2}
GoalTries == {1, ValidatorMaxAttempts}
ZonePairs == { <<<<9600, 9600>>, <<38400, 28800>>>>, <<<<60000, 48000>>, <<9600, 9600>>>> }

(* FlowingTerrainGenerator(): the base colour takes three draws.           *)
FlowingTerrainGenerator(id) == [id |-> id, draws |-> ColourDraws]

(* generate_terrain: the base field comes from numpy's own stream; each    *)
(* channel draws its start (2) and three values per carving step.  The     *)
(* result is a list holding the one obstacle built from the field.         *)
generate_terrain(gen) ==
    [obstacles |-> <<gen.id>>, draws |-> NumChannels * (2 + 3 * ChannelLength)]

(* _find_any_valid_zones on a terrain the model does not look into: every  *)
(* way its two loops can end, with the draws each way consumes.            *)
find_any_valid_zones ==
    { [zones |-> None, draws |-> 2 * ValidatorMaxAttempts] }
    \cup { [zones |-> None, draws |-> 2 * ks + 2 * ValidatorMaxAttempts] : ks \in SpawnTries }
    \cup { [zones |-> Some([spawn |-> Zone(zp[1][1], zp[1][2], MARBLE_RADIUS * 4),
                            goal |-> Zone(zp[2][1], zp[2][2], MARBLE_RADIUS * 3)]),
            draws |-> 2 * ks + 2 * kg] : ks \in SpawnTries, kg \in GoalTries, zp \in ZonePairs }

validate_indiv_race_terrain(obstacles) ==
    IF obstacles = <<>> THEN { [zones |-> None, draws |-> 0] } ELSE find_any_valid_zones

(* validate_and_setup_terrain: the zones are replaced only by a pair.      *)
validate_and_setup_terrain_Mut(v, sz, gz) ==
    [ok |-> IsSome(v.zones), spawn_zone |-> sz, goal_zone |-> gz]
validate_and_setup_terrain(v, sz, gz) ==
    IF IsSome(v.zones)
    THEN [ok |-> TRUE, spawn_zone |-> Some(Get(v.zones).spawn), goal_zone |-> Some(Get(v.zones).goal)]
    ELSE [ok |-> FALSE, spawn_zone |-> sz, goal_zone |-> gz]

BatchComplete_Mut(n) == n >= 1
BatchComplete(n) == n >= MaxAttempts

AfterLastCandidate_Mut == [raised |-> "", spc |-> "terrain_ready"]
AfterLastCandidate == [raised |-> "RuntimeError", spc |-> "failed"]

InitSetup ==
    /\ ManagerInit
    /\ marbles = <<>>
    /\ DetIdle
    /\ TerrainIdle
    /\ StartIdle
    /\ spawn_zone = None
    /\ goal_zone = None
    /\ gm_winner_marble_id = None
    /\ bodies = <<>>
    /\ frame_counter = 0
    /\ rngPos = 0
    /\ mode = "setup"
    /\ pc = "setup"
    /\ running = TRUE
    /\ accumulator = 0
    /\ raised = ""
    /\ updateCalls = 0
    /\ lastResult = None
    /\ spc = "start"
    /\ terrain_candidates = <<>>
    /\ terrain_generator = None
    /\ terrain_obstacles = None
    /\ engine_created = FALSE
    /\ generated = 0
    /\ validated = <<>>
    /\ batchEndPos = 0
    /\ lastValidationDraws = 0
    /\ zonesFrom = None

(* manager.py:58: the manager's own generator, before any candidate.       *)
NewTerrainGenerator ==
    /\ spc = "start"
    /\ terrain_generator' = Some(0)
    /\ rngPos' = rngPos + FlowingTerrainGenerator(0).draws
    /\ spc' = "generating"
    /\ UNCHANGED <<managerVars, gameModeVars, bodies, frame_counter, runnerVars, raised,
                   updateCalls, lastResult, terrain_candidates, terrain_obstacles,
                   engine_created, generated, validated, batchEndPos, lastValidationDraws,
                   zonesFrom, detVars, terrainVars, startVars, waveVars>>

(* One pass of the generation loop (manager.py:65-69).                     *)
GenerateCandidate ==
    /\ spc = "generating"
    /\ ~BatchComplete(Len(terrain_candidates))
    /\ LET temp_generator == FlowingTerrainGenerator(Len(terrain_candidates) + 1)
           terrain == generate_terrain(temp_generator)
       IN  /\ terrain_candidates' = Append(terrain_candidates,
                                           [generator |-> temp_generator.id,
                                            obstacles |-> terrain.obstacles])
           /\ rngPos' = rngPos + temp_generator.draws + terrain.draws
    /\ generated' = generated + 1
    /\ UNCHANGED <<managerVars, gameModeVars, bodies, frame_counter, runnerVars, raised,
                   updateCalls, lastResult, spc, terrain_generator, terrain_obstacles,
                   engine_created, validated, batchEndPos, lastValidationDraws,
                   zonesFrom, detVars, terrainVars, startVars, waveVars>>

(* The generation loop ends and the validation loop starts.                *)
GenerationDone ==
    /\ spc = "generating"
    /\ BatchComplete(Len(terrain_candidates))
    /\ spc' = "validating"
    /\ batchEndPos' = rngPos
    /\ UNCHANGED <<managerVars, gameModeVars, engineVars, runnerVars, raised,
                   updateCalls, lastResult, terrain_candidates, terrain_generator,
                   terrain_obstacles, engine_created, generated, validated,
                   lastValidationDraws, zonesFrom, detVars, terrainVars, startVars, waveVars>>

(* One pass of the validation loop (manager.py:72-77): the next candidate  *)
(* is validated, and committed if the validator returned zones.            *)
ValidateCandidate ==
    /\ spc = "validating"
    /\ Len(validated) < Len(terrain_candidates)
    /\ LET attempt == Len(validated) + 1
           candidate == terrain_candidates[attempt]
       IN  \E v \in validate_indiv_race_terrain(candidate.obstacles) :
             LET res == validate_and_setup_terrain(v, spawn_zone, goal_zone)
             IN  /\ rngPos' = rngPos + v.draws
                 /\ lastValidationDraws' = v.draws
                 /\ validated' = Append(validated, [index |-> attempt, ok |-> res.ok,
                                                     zones |-> v.zones])
                 /\ spawn_zone' = res.spawn_zone
                 /\ goal_zone' = res.goal_zone
                 /\ zonesFrom' = IF IsSome(v.zones) THEN Some(attempt) ELSE zonesFrom
                 /\ IF res.ok
                    THEN /\ terrain_generator' = Some(candidate.generator)
                         /\ terrain_obstacles' = Some(candidate.obstacles)
                         /\ spc' = "terrain_ready"
                    ELSE UNCHANGED <<terrain_generator, terrain_obstacles, spc>>
    /\ UNCHANGED <<managerVars, gm_winner_marble_id, bodies, frame_counter, runnerVars, raised,
                   updateCalls, lastResult, terrain_candidates, engine_created, generated,
                   batchEndPos, detVars, terrainVars, startVars, waveVars>>

(* The validation loop ran out of candidates (manager.py:80).              *)
Exhausted ==
    /\ spc = "validating"
    /\ Len(validated) = Len(terrain_candidates)
    /\ raised' = AfterLastCandidate.raised
    /\ spc' = AfterLastCandidate.spc
    /\ UNCHANGED <<managerVars, gameModeVars, engineVars, runnerVars,
                   updateCalls, lastResult, terrain_candidates, terrain_generator,
                   terrain_obstacles, engine_created, generated, validated, batchEndPos,
                   lastValidationDraws, zonesFrom, detVars, terrainVars, startVars, waveVars>>

(* initialize_physics_engine (manager.py:45-47) reads terrain_obstacles,   *)
(* an attribute only a commit has set.                                     *)
InitializePhysicsEngine ==
    /\ spc = "terrain_ready"
    /\ IF IsSome(terrain_obstacles)
       THEN engine_created' = TRUE /\ spc' = "engine_ready" /\ UNCHANGED raised
       ELSE raised' = "AttributeError" /\ spc' = "failed" /\ UNCHANGED engine_created
    /\ UNCHANGED <<managerVars, gameModeVars, engineVars, runnerVars,
                   updateCalls, lastResult, terrain_candidates, terrain_generator,
                   terrain_obstacles, generated, validated, batchEndPos,
                   lastValidationDraws, zonesFrom, detVars, terrainVars, startVars, waveVars>>

(* get_spawn_positions: marble i takes the first random position that is   *)
(* 2.5 radii from the earlier ones, or, after SpawnMaxAttempts failures,   *)
(* the fallback on the circle of 2 radii round the zone centre.  fallback  *)
(* is the set of marbles whose attempts all failed; a random position that *)
(* is accepted is taken at 2000 units from the centre.                     *)
get_spawn_positions(sz, num_marbles, marble_radius, fallback) ==
    [positions |->
        [i \in 1..num_marbles |->
            LET dir == Turn(1, 3 * ((4 * (i - 1)) \div num_marbles))
                offset == IF i \in fallback THEN marble_radius * 2 ELSE 2000
            IN  <<sz.center_x + Polar(dir, offset)[1], sz.center_y + Polar(dir, offset)[2]>>],
     draws |-> 2 * ((num_marbles - Cardinality(fallback)) + SpawnMaxAttempts * Cardinality(fallback))]

(* _initialize_marbles (manager.py:82-92).                                 *)
InitializeMarbles ==
    /\ spc = "engine_ready"
    /\ IF IsSome(spawn_zone)
       THEN \E n \in MarbleCounts : \E fallback \in SUBSET (2..n) :
              LET sp == get_spawn_positions(Get(spawn_zone), n, MARBLE_RADIUS, fallback)
              IN  /\ marbles' = [i \in 1..n |->
                                    Marble(sp.positions[i][1], sp.positions[i][2],
                                           MARBLE_RADIUS, MARBLE_SPEED, (4 * (i - 1)) \div n)]
                  /\ rngPos' = rngPos + sp.draws
                  /\ spc' = "constructed"
                  /\ UNCHANGED raised
       ELSE raised' = "ValueError" /\ spc' = "failed" /\ UNCHANGED <<marbles, rngPos>>
    /\ UNCHANGED <<simulation_time, game_finished, winner_marble_id, gameModeVars, bodies,
                   frame_counter, runnerVars, updateCalls, lastResult, terrain_candidates,
                   terrain_generator, terrain_obstacles, engine_created, generated, validated,
                   batchEndPos, lastValidationDraws, zonesFrom, detVars, terrainVars, startVars, waveVars>>

NextSetup ==
    \/ NewTerrainGenerator
    \/ GenerateCandidate
    \/ GenerationDone
    \/ ValidateCandidate
    \/ Exhausted
    \/ InitializePhysicsEngine
    \/ InitializeMarbles

SpecSetup == InitSetup /\ [][NextSetup]_vars


----------------------------------------------------------------------------
(* Two independent runs of the program, for the determinism of a run as a  *)
(* function of its seed.  Python's random stream is a function of the seed *)
(* it was given (here a small linear congruential generator); numpy's      *)
(* global stream is never seeded by the program, so what np.random.rand    *)
(* returns is not determined by anything the program sets.                 *)

GridCells == 3
ZoneTries == 2
Seeds == {1, 2}
Dates == {3}
Clock == {4, 5}

(* RNGConfig._initialize_seed.                                             *)
initialize_seed(rng_mode, seed_value, today, now) ==
    IF rng_mode = "DATE" THEN today
    ELSE IF rng_mode = "RANDOM" THEN now
    ELSE seed_value

(* random.seed(seed) and the next state of the stream after a draw.        *)
random_seed(seed) == seed % 16
random_next(py) == (5 * py + 3) % 16
(* rng.randint(1, n) from the stream state.                                *)
randint(py, n) == (py % n) + 1

(* np.random.rand(grid_height, grid_width) thresholded: 1 is solid.        *)
np_random_rand == [1..GridCells -> {0, 1}]

(* create_flowing_channels_smooth: a channel opens the cell it starts in.  *)
create_flowing_channels_smooth(field, py) ==
    [field |-> [field EXCEPT ![randint(py, GridCells)] = 0], py |-> random_next(py)]

(* The position loops of _find_any_valid_zones: the first drawn cell that  *)
(* is open, within the attempts left.                                      *)
RECURSIVE FirstClear(_, _, _, _)
FirstClear(field, py, taken, attempts) ==
    IF attempts = 0 THEN [pos |-> None, py |-> py]
    ELSE LET c == randint(py, GridCells)
         IN  IF field[c] = 0 /\ Some(c) # taken
             THEN [pos |-> Some(c), py |-> random_next(py)]
             ELSE FirstClear(field, random_next(py), taken, attempts - 1)

find_zones(field, py) ==
    LET s == FirstClear(field, py, None, ZoneTries)
    IN  IF s.pos = None THEN [spawn |-> None, goal |-> None, py |-> s.py]
        ELSE LET g == FirstClear(field, s.py, s.pos, ZoneTries)
             IN  [spawn |-> IF g.pos = None THEN None ELSE s.pos, goal |-> g.pos, py |-> g.py]

RunIds == {1, 2}

InitDet ==
    /\ ManagerInit
    /\ SetupIdle
    /\ TerrainIdle
    /\ StartIdle
    /\ marbles = <<>>
    /\ spawn_zone = None
    /\ goal_zone = None
    /\ gm_winner_marble_id = None
    /\ bodies = <<>>
    /\ frame_counter = 0
    /\ rngPos = 0
    /\ mode = "two runs"
    /\ pc = "two runs"
    /\ running = TRUE
    /\ accumulator = 0
    /\ raised = ""
    /\ updateCalls = 0
    /\ lastResult = None
    /\ \E m \in {"DATE", "RANDOM", "SET"}, v \in Seeds, d \in Dates :
          runs = [r \in RunIds |->
                    [rng_mode |-> m, seed_value |-> v, today |-> d, rpc |-> "start", seed |-> None, py |-> 0,
                     field |-> None, spawn |-> None, goal |-> None, body |-> None]]

DetUnchanged ==
    UNCHANGED <<managerVars, gameModeVars, engineVars, runnerVars, raised, updateCalls,
                lastResult, setupVars, terrainVars, startVars, waveVars>>

(* configure_rng: the seed is established and Python's stream seeded.      *)
ConfigureRng(r) ==
    /\ runs[r].rpc = "start"
    /\ \E now \in Clock :
         LET seed == initialize_seed(runs[r].rng_mode, runs[r].seed_value, runs[r].today, now)
         IN  runs' = [runs EXCEPT ![r].seed = Some(seed), ![r].py = random_seed(seed),
                                  ![r].rpc = "base"]
    /\ DetUnchanged

(* generate_base_terrain (height_field.py:134-142).                        *)
GenerateBaseTerrain(r) ==
    /\ runs[r].rpc = "base"
    /\ \E base \in np_random_rand :
         runs' = [runs EXCEPT ![r].field = base, ![r].rpc = "channels"]
    /\ DetUnchanged

CreateFlowingChannels(r) ==
    /\ runs[r].rpc = "channels"
    /\ LET c == create_flowing_channels_smooth(runs[r].field, runs[r].py)
       IN  runs' = [runs EXCEPT ![r].field = c.field, ![r].py = c.py, ![r].rpc = "zones"]
    /\ DetUnchanged

FindZones(r) ==
    /\ runs[r].rpc = "zones"
    /\ LET z == find_zones(runs[r].field, runs[r].py)
       IN  runs' = [runs EXCEPT ![r].spawn = z.spawn, ![r].goal = z.goal, ![r].py = z.py,
                                ![r].rpc = IF z.goal = None THEN "failed" ELSE "physics"]
    /\ DetUnchanged

(* The first marble leaves the spawn cell heading along the x axis, and    *)
(* the anti-stall check turns it by a variation drawn from the stream.     *)
PhysicsVariation(r) ==
    /\ runs[r].rpc = "physics"
    /\ LET b == [position_x |-> Get(runs[r].spawn), position_y |-> 0,
                 velocity_x |-> MARBLE_SPEED, velocity_y |-> 0]
           sign == IF random_next(runs[r].py) < 8 THEN -1 ELSE 1
       IN  runs' = [runs EXCEPT ![r].body = Some(add_velocity_variation(b, MARBLE_SPEED, sign)),
                                ![r].py = random_next(random_next(runs[r].py)),
                                ![r].rpc = "done"]
    /\ DetUnchanged

NextDet ==
    \E r \in RunIds :
        \/ ConfigureRng(r)
        \/ GenerateBaseTerrain(r)
        \/ CreateFlowingChannels(r)
        \/ FindZones(r)
        \/ PhysicsVariation(r)

SpecDet == InitDet /\ [][NextDet]_vars

----------------------------------------------------------------------------
(* The physics engine stepped directly on a small arena, and the legacy    *)
(* CollisionDetector's velocity normalisation (physics/collision.py).      *)

COLLISION_POSITION_TOLERANCE_TENTHS == 1

(* CollisionDetector._normalize_velocity.                                  *)
normalize_velocity(m) ==
    LET current_speed == Speed(m.velocity_x, m.velocity_y)
    IN  IF current_speed * 10 < COLLISION_POSITION_TOLERANCE_TENTHS
        THEN [m EXCEPT !.velocity_x = Polar(Turn(Atan2(m.y, m.x), 2), m.speed)[1],
                       !.velocity_y = Polar(Turn(Atan2(m.y, m.x), 2), m.speed)[2]]
        ELSE [m EXCEPT !.velocity_x = (m.velocity_x * m.speed) \div current_speed,
                       !.velocity_y = (m.velocity_y * m.speed) \div current_speed]

PhysicsStarts == { <<0, 0>>, <<35, 140>> }
PhysicsMarbles ==
    { Marble(c[1], c[2], 1, MARBLE_SPEED, q) : c \in PhysicsStarts, q \in {0, 1} }

(* Two marbles heading for each other along the x axis.                    *)
PhysicsPair == << Marble(0, 0, 1, MARBLE_SPEED, 0), Marble(175, 0, 1, MARBLE_SPEED, 2) >>

InitPhysics ==
    /\ ManagerInit
    /\ SetupIdle
    /\ DetIdle
    /\ TerrainIdle
    /\ StartIdle
    /\ marbles \in [1..1 -> PhysicsMarbles] \cup {PhysicsPair}
    /\ spawn_zone = None
    /\ goal_zone = None
    /\ gm_winner_marble_id = None
    /\ bodies = <<>>
    /\ frame_counter = 0
    /\ rngPos = 0
    /\ mode \in {"engine", "detector"}
    /\ pc = "physics"
    /\ running = TRUE
    /\ accumulator = 0
    /\ raised = ""
    /\ updateCalls = 0
    /\ lastResult = None

(* engine.update_physics(FIXED_TIMESTEP, marbles).                         *)
PhysicsStep ==
    /\ mode = "engine"
    /\ frame_counter < MaxFrames
    /\ \E p \in update_physics(FIXED_TIMESTEP, marbles, bodies, frame_counter, rngPos,
                               ArenaSize, ArenaSize) :
          /\ bodies' = p.bodies
          /\ marbles' = p.marbles
          /\ frame_counter' = p.frame_counter
          /\ rngPos' = p.rngPos
    /\ UNCHANGED <<simulation_time, game_finished, winner_marble_id, gameModeVars, runnerVars,
                   raised, updateCalls, lastResult, setupVars, detVars, terrainVars, startVars, waveVars>>

(* A collision response of the CollisionDetector: it leaves the marble     *)
(* with some velocity and ends with _normalize_velocity.                   *)
DetectorCollision ==
    /\ mode = "detector"
    /\ \E i \in 1..Len(marbles), v \in ContactVelocities :
          marbles' = [marbles EXCEPT ![i] =
                        normalize_velocity([@ EXCEPT !.velocity_x = v[1], !.velocity_y = v[2]])]
    /\ UNCHANGED <<simulation_time, game_finished, winner_marble_id, gameModeVars, engineVars,
                   runnerVars, raised, updateCalls, lastResult, setupVars, detVars, terrainVars, startVars, waveVars>>

NextPhysics ==
    \/ PhysicsStep
    \/ DetectorCollision

SpecPhysics == InitPhysics /\ [][NextPhysics]_vars

----------------------------------------------------------------------------
(* Properties.                                                             *)

C2_FinishedUpdateIsNoOp ==
    [][(game_finished /\ updateCalls' # updateCalls)
        => /\ simulation_time' = simulation_time
           /\ winner_marble_id' = winner_marble_id
           /\ game_finished'
           /\ marbles' = marbles]_vars

(* Two update calls have been made on a finished race.                     *)
C2_Witness == game_finished /\ updateCalls >= 2 /\ Len(marbles) > 0

(* C3: with the goal zone set, check_win_condition answers WINNER with the *)
(* lowest id among the marbles whose centre is within the goal radius, and *)
(* ONGOING with no winner when there is none.                              *)
C3_LowestIndexWins ==
    (pc = "checked" /\ IsSome(goal_zone)) =>
        LET z == Get(goal_zone)
            inside == { i \in 1..Len(marbles) :
                          (marbles[i].x - z.center_x) * (marbles[i].x - z.center_x)
                          + (marbles[i].y - z.center_y) * (marbles[i].y - z.center_y)
                          <= z.radius * z.radius }
        IN  IF inside = {}
            THEN lastResult = Some(<<"ONGOING", None>>)
            ELSE \E i \in inside :
                    /\ \A j \in inside : i <= j
                    /\ lastResult = Some(<<"WINNER", Some(i - 1)>>)
                    /\ gm_winner_marble_id = Some(i - 1)

(* Several marbles are in the goal zone, one of them on its rim, the first *)
(* marble is outside, and the winner is the second.                        *)
C3_Witness ==
    /\ pc = "checked"
    /\ Len(marbles) = 3
    /\ marbles[1].x = 6
    /\ marbles[2].x = 3 /\ marbles[2].y = 4
    /\ marbles[3].x = 0
    /\ lastResult = Some(<<"WINNER", Some(1)>>)

(* C4 as claimed: an update call on a race not yet finished, with a marble *)
(* at the centre of the goal zone, finishes the race and records a winner. *)
C4_WinnerOnNextUpdate ==
    [][(/\ ~game_finished
        /\ IsSome(goal_zone)
        /\ \E i \in 1..Len(marbles) :
              marbles[i].x = Get(goal_zone).center_x /\ marbles[i].y = Get(goal_zone).center_y
        /\ updateCalls' # updateCalls)
        => (game_finished' /\ IsSome(winner_marble_id'))]_vars

(* C5: while the clock is below 0 no step changes a marble, registers or   *)
(* moves a body, or calls update.                                          *)
C5_CountdownFreezesMarbles ==
    [][simulation_time < 0
        => (marbles' = marbles /\ bodies' = bodies /\ updateCalls' = updateCalls)]_vars

(* The countdown has run and the first update has been called.             *)
C5_Witness == pc = "crashed" /\ updateCalls = 1 /\ simulation_time >= FIXED_TIMESTEP

C8_RngPositionIndependentOfIndex ==
    spc = "terrain_ready" => rngPos = batchEndPos + lastValidationDraws

(* C9 as claimed: two runs that were given the same seed end with the same *)
(* height field, the same spawn and goal zones and the same marble motion. *)
C9_SameSeedSameRun ==
    (/\ runs # <<>>
     /\ \A r \in RunIds : runs[r].rpc \in {"done", "failed"}
     /\ runs[1].seed = runs[2].seed)
    => /\ runs[1].field = runs[2].field
       /\ runs[1].spawn = runs[2].spawn
       /\ runs[1].goal = runs[2].goal
       /\ runs[1].body = runs[2].body

(* C10: in every state, and so at the end of every physics step, each      *)
(* marble's velocity has exactly the magnitude of its fixed speed, and so  *)
(* has the velocity of its body.                                           *)
C10_SpeedInvariant ==
    /\ \A i \in 1..Len(marbles) :
          marbles[i].velocity_x * marbles[i].velocity_x
          + marbles[i].velocity_y * marbles[i].velocity_y = marbles[i].speed * marbles[i].speed
    /\ \A i \in 1..Len(bodies) :
          bodies[i].velocity_x * bodies[i].velocity_x
          + bodies[i].velocity_y * bodies[i].velocity_y = marbles[i].speed * marbles[i].speed

(* The anti-stall check has run and turned a marble, which now moves along *)
(* neither axis at its speed.                                              *)
C10_Witness ==
    /\ frame_counter = StuckCheckInterval
    /\ rngPos > 0
    /\ \E i \in 1..Len(marbles) : marbles[i].velocity_x # 0 /\ marbles[i].velocity_y # 0

(* C11 as claimed: in a run of a constructed race no update call raises,   *)
(* and the win check never answers ERROR.                                  *)
C11_RunningNeverErrors ==
    /\ raised = ""
    /\ pc # "crashed"
    /\ IsSome(lastResult) => Get(lastResult)[1] # "ERROR"

(***************************************************************************)
(* terrain/cave_generator.py: the height field and its connectivity        *)
(* repair.  Heights are in tenths (1.0 is 10); a cell is <<x, y>>.         *)
(***************************************************************************)
grid_width == 6
grid_height == 5
MaxOpenCells == 6

SolidHeight == 10
AirThreshold == 5

(* No race is under way: the state of a manager nobody has started.        *)
NoRace ==
    /\ ManagerInit
    /\ SetupIdle
    /\ DetIdle
    /\ spawn_zone = None
    /\ goal_zone = None
    /\ gm_winner_marble_id = None
    /\ bodies = <<>>
    /\ frame_counter = 0
    /\ rngPos = 0
    /\ running = TRUE
    /\ accumulator = 0
    /\ raised = ""
    /\ updateCalls = 0

CaveCells == (0..(grid_width - 1)) \X (0..(grid_height - 1))

(* The cells the carving steps may write: 1 <= nx < grid_width - 1 and     *)
(* 1 <= ny < grid_height - 1.                                              *)
CarvableCells == {c \in CaveCells : /\ 1 <= c[1] /\ c[1] < grid_width - 1
                                    /\ 1 <= c[2] /\ c[2] < grid_height - 1}

IsAir(hf, c) == hf[c] < AirThreshold

AirCells(hf) == {c \in DOMAIN hf : IsAir(hf, c)}

(* The while loop of _flood_fill_air_region: the stack is popped from its  *)
(* end, and the four neighbours are pushed left, right, up, down.          *)
RECURSIVE FloodFillLoop(_, _, _, _)
FloodFillLoop(hf, visited, stack, region) ==
    IF stack = <<>> THEN [region |-> region, visited |-> visited]
    ELSE LET c == stack[Len(stack)]
             rest == SubSeq(stack, 1, Len(stack) - 1)
         IN  IF c \notin CaveCells \/ c \in visited \/ ~IsAir(hf, c)
             THEN FloodFillLoop(hf, visited, rest, region)
             ELSE FloodFillLoop(hf, visited \cup {c},
                                rest \o << <<c[1] - 1, c[2]>>, <<c[1] + 1, c[2]>>,
                                           <<c[1], c[2] - 1>>, <<c[1], c[2] + 1>> >>,
                                Append(region, c))

flood_fill_air_region(hf, visited, start) ==
    IF start \notin CaveCells \/ start \in visited \/ ~IsAir(hf, start)
    THEN [region |-> <<>>, visited |-> visited]
    ELSE FloodFillLoop(hf, visited, <<start>>, <<>>)

(* The i-th cell of the scan "for y ... for x ...".                        *)
ScanCell(i) == <<(i - 1) % grid_width, (i - 1) \div grid_width>>

RECURSIVE FindAirRegions(_, _, _, _)
FindAirRegions(hf, i, visited, regions) ==
    IF i > grid_width * grid_height THEN regions
    ELSE LET c == ScanCell(i)
         IN  IF IsAir(hf, c) /\ c \notin visited
             THEN LET f == flood_fill_air_region(hf, visited, c)
                  IN  FindAirRegions(hf, i + 1, f.visited,
                                     IF f.region # <<>> THEN Append(regions, f.region)
                                     ELSE regions)
             ELSE FindAirRegions(hf, i + 1, visited, regions)

(* max(air_regions, key=len): the first of the longest regions.            *)
LargestRegion(regions) ==
    regions[CHOOSE i \in 1..Len(regions) :
               /\ \A j \in 1..Len(regions) : Len(regions[j]) <= Len(regions[i])
               /\ \A j \in 1..(i - 1) : Len(regions[j]) < Len(regions[i])]

(* region[::step] with step = max(1, len(region) // 20).                   *)
RegionSample(region) ==
    LET step == IF Len(region) \div 20 > 1 THEN Len(region) \div 20 ELSE 1
        n == (Len(region) + step - 1) \div step
    IN  [k \in 1..n |-> region[(k - 1) * step + 1]]

SquaredDistance(a, b) == (a[1] - b[1]) * (a[1] - b[1]) + (a[2] - b[2]) * (a[2] - b[2])

(* The cells _carve_connection_tunnel sets to 0.0: a diamond of radius     *)
(* tunnel_width = 2 around each point of the interpolated line, cut only   *)
(* at the edge of the grid.                                                *)
TunnelCells(start, end) ==
    LET dx == end[1] - start[1]
        dy == end[2] - start[2]
        distance == IF Abs(dx) > Abs(dy) THEN Abs(dx) ELSE Abs(dy)
    IN  IF distance = 0 THEN {}
        ELSE {c \in CaveCells :
                \E i \in 0..distance :
                    LET x == start[1] + (i * dx) \div distance
                        y == start[2] + (i * dy) \div distance
                    IN  Abs(c[1] - x) + Abs(c[2] - y) <= 2}

carve_connection_tunnel(hf, start, end) ==
    [c \in DOMAIN hf |-> IF c \in TunnelCells(start, end) THEN 0 ELSE hf[c]]

(* The first pair of sample points, isolated point outermost, at the       *)
(* smallest distance; then the tunnel between them.                        *)
create_connection_to_main_air(hf, isolated_region, main_region) ==
    IF isolated_region = <<>> \/ main_region = <<>> THEN hf
    ELSE LET iso == RegionSample(isolated_region)
             main == RegionSample(main_region)
             pairs == (1..Len(iso)) \X (1..Len(main))
             d(p) == SquaredDistance(iso[p[1]], main[p[2]])
             best == CHOOSE p \in pairs :
                        /\ \A q \in pairs : d(p) <= d(q)
                        /\ \A q \in pairs :
                              (q[1] < p[1] \/ (q[1] = p[1] /\ q[2] < p[2])) => d(q) > d(p)
         IN  carve_connection_tunnel(hf, iso[best[1]], main[best[2]])

(* "if region != largest_region and len(region) > 2".                      *)
IsConnectedToMain(region, largest_region) ==
    region # largest_region /\ Len(region) > 2

RECURSIVE ConnectRegions(_, _, _, _)
ConnectRegions(hf, regions, i, largest_region) ==
    IF i > Len(regions) THEN hf
    ELSE ConnectRegions(IF IsConnectedToMain(regions[i], largest_region)
                        THEN create_connection_to_main_air(hf, regions[i], largest_region)
                        ELSE hf,
                        regions, i + 1, largest_region)

connect_isolated_air_pockets(hf) ==
    LET air_regions == FindAirRegions(hf, 1, {}, <<>>)
    IN  IF Len(air_regions) <= 1 THEN hf
        ELSE ConnectRegions(hf, air_regions, 1, LargestRegion(air_regions))

(* generate, step 1: a field of ones with its borders made solid.          *)
InitCave ==
    /\ NoRace
    /\ StartIdle
    /\ marbles = <<>>
    /\ lastResult = None
    /\ mode = "cave"
    /\ pc = "carving"
    /\ height_field = [c \in CaveCells |-> SolidHeight]

CaveUnchanged ==
    UNCHANGED <<managerVars, gameModeVars, engineVars, mode, running, accumulator,
                raised, updateCalls, lastResult, setupVars, detVars, startVars, waveVars>>

(* generate, steps 2 to 7: the path, chambers, branches, smoothing and     *)
(* roughening open cells, none of them on the outermost ring.              *)
CarveCell ==
    /\ mode = "cave"
    /\ pc = "carving"
    /\ Cardinality(AirCells(height_field)) < MaxOpenCells
    /\ \E c \in CarvableCells :
          /\ ~IsAir(height_field, c)
          /\ height_field' = [height_field EXCEPT ![c] = 0]
    /\ pc' = pc
    /\ CaveUnchanged

(* generate, step 8, and the return.                                       *)
ConnectIsolatedAirPockets ==
    /\ mode = "cave"
    /\ pc = "carving"
    /\ height_field' = connect_isolated_air_pockets(height_field)
    /\ pc' = "generated"
    /\ CaveUnchanged

NextCave ==
    \/ CarveCell
    \/ ConnectIsolatedAirPockets

SpecCave == InitCave /\ [][NextCave]_vars

(* The open cells a 4-neighbour flood fill reaches from the cells in seen. *)
RECURSIVE Reach(_, _)
Reach(hf, seen) ==
    LET more == {c \in AirCells(hf) \ seen :
                    \E s \in seen : Abs(c[1] - s[1]) + Abs(c[2] - s[2]) = 1}
    IN  IF more = {} THEN seen ELSE Reach(hf, seen \cup more)

SinglyConnected(hf) == \A c \in AirCells(hf) : Reach(hf, {c}) = AirCells(hf)

BorderRing == CaveCells \ CarvableCells

(* C12 as claimed: once generation has completed, the open cells of the    *)
(* height field form one 4-connected region, whatever regions there were   *)
(* before the connectivity repair.                                         *)
C12_OpenSpaceSinglyConnected ==
    (mode = "cave" /\ pc = "generated") => SinglyConnected(height_field)

(* C13 as claimed: every cell of the outermost ring of the grid is solid   *)
(* in every height field of the generator, the returned one included.      *)
C13_BorderRingSolid ==
    mode = "cave" => \A c \in BorderRing : height_field[c] >= AirThreshold

(***************************************************************************)
(* terrain/obstacle.py: FlowingTerrainObstacle over a height field.        *)
(* World coordinates are in 1/60 px, heights in tenths, the threshold in   *)
(* ten-thousandths.                                                        *)
(***************************************************************************)
ObstacleGridSize == 5

(* scale = width / grid_width with grid_width = width // 8.                *)
ObstacleScale == 8 * LengthUnitsPerPixel

(* threshold = 0.25 + complexity * 0.35.                                   *)
ObstacleThreshold == 2500 + TERRAIN_COMPLEXITY_PCT * 35

(* len(height_field[0]) and len(height_field).                             *)
GridWidthOf(hf) == Cardinality({c[1] : c \in DOMAIN hf})
GridHeightOf(hf) == Cardinality({c[2] : c \in DOMAIN hf})

FlowingTerrainObstacle(hf) ==
    [height_field |-> hf, threshold |-> ObstacleThreshold,
     scale_x |-> ObstacleScale, scale_y |-> ObstacleScale,
     grid_width |-> GridWidthOf(hf), grid_height |-> GridHeightOf(hf)]

(* int(a / b) for b > 0: truncation toward zero.                           *)
IntTrunc(a, b) == IF a >= 0 THEN a \div b ELSE -((-a) \div b)

(* height_field[gy][gx] as Python indexes a list of lists: an index from   *)
(* -len to -1 counts from the end, any other index outside the list raises.*)
PyIndex(i, n) == IF 0 <= i /\ i < n THEN Some(i)
                 ELSE IF -n <= i /\ i < 0 THEN Some(i + n)
                 ELSE None

IndexRaises(ob, gx, gy) ==
    ~(IsSome(PyIndex(gx, ob.grid_width)) /\ IsSome(PyIndex(gy, ob.grid_height)))

HeightAt(ob, gx, gy) ==
    ob.height_field[<<Get(PyIndex(gx, ob.grid_width)), Get(PyIndex(gy, ob.grid_height))>>]

IsSolidHeight(ob, h) == h * 1000 > ob.threshold

(* floor(rho * cos(pi/4)).                                                 *)
Diag(rho) == SqrtBetween((rho * rho) \div 2, 0, rho)

(* The whole units below sample_radius * cos(angle) and * sin(angle) for   *)
(* angle = 2*pi*i/8: no sample lies on a unit boundary off the axes, so    *)
(* the cell of centre + offset is the cell of the sample.                  *)
SampleOffset(i, rho) ==
    CASE i = 0 -> <<rho, 0>>
      [] i = 1 -> <<Diag(rho), Diag(rho)>>
      [] i = 2 -> <<0, rho>>
      [] i = 3 -> <<-Diag(rho) - 1, Diag(rho)>>
      [] i = 4 -> <<-rho, 0>>
      [] i = 5 -> <<-Diag(rho) - 1, -Diag(rho) - 1>>
      [] i = 6 -> <<0, -rho>>
      [] i = 7 -> <<Diag(rho), -Diag(rho) - 1>>

(* The k-th sample of check_collision, k = 1..16: direction (k-1) // 2,    *)
(* radius ((k-1) % 2 + 1) * marble_radius / 2; its grid cell.              *)
SampleCell(ob, marble_x, marble_y, marble_radius, k) ==
    LET off == SampleOffset((k - 1) \div 2, ((((k - 1) % 2) + 1) * marble_radius) \div 2)
    IN  <<IntTrunc(marble_x + off[1], ob.scale_x), IntTrunc(marble_y + off[2], ob.scale_y)>>

(* The bounds check on a sample, left out.                                 *)
SampleInGrid_Mut(ob, g) == TRUE

SampleInGrid(ob, g) ==
    ~(g[1] < 0 \/ g[1] >= ob.grid_width \/ g[2] < 0 \/ g[2] >= ob.grid_height)

RECURSIVE CheckSamples(_, _, _, _, _)
CheckSamples(ob, marble_x, marble_y, marble_radius, k) ==
    IF k > 16 THEN "False"
    ELSE LET g == SampleCell(ob, marble_x, marble_y, marble_radius, k)
         IN  IF ~SampleInGrid(ob, g) THEN "True"
             ELSE IF IndexRaises(ob, g[1], g[2]) THEN "IndexError"
             ELSE IF IsSolidHeight(ob, HeightAt(ob, g[1], g[2])) THEN "True"
             ELSE CheckSamples(ob, marble_x, marble_y, marble_radius, k + 1)

(* FlowingTerrainObstacle.check_collision: "True", "False", or the         *)
(* "IndexError" an index outside the lists raises.                         *)
check_collision(ob, marble_x, marble_y, marble_radius) ==
    LET world_width == ob.grid_width * ob.scale_x
        world_height == ob.grid_height * ob.scale_y
        grid_x == IntTrunc(marble_x, ob.scale_x)
        grid_y == IntTrunc(marble_y, ob.scale_y)
    IN  IF \/ marble_x - marble_radius < 0 \/ marble_x + marble_radius > world_width
           \/ marble_y - marble_radius < 0 \/ marble_y + marble_radius > world_height
        THEN "True"
        ELSE IF grid_x < 0 \/ grid_x >= ob.grid_width \/ grid_y < 0 \/ grid_y >= ob.grid_height
        THEN "True"
        ELSE IF IsSolidHeight(ob, HeightAt(ob, grid_x, grid_y)) THEN "True"
        ELSE CheckSamples(ob, marble_x, marble_y, marble_radius, 1)

ObstacleCells == (0..(ObstacleGridSize - 1)) \X (0..(ObstacleGridSize - 1))

(* The fields of the queries: open, one solid cell, one solid row or       *)
(* column, or solid throughout.                                            *)
ObstacleSolidSets ==
    {{}} \cup {{c} : c \in ObstacleCells}
         \cup {{c \in ObstacleCells : c[1] = x} : x \in 0..(ObstacleGridSize - 1)}
         \cup {{c \in ObstacleCells : c[2] = y} : y \in 0..(ObstacleGridSize - 1)}
         \cup {ObstacleCells}

ObstacleFields ==
    {[c \in ObstacleCells |-> IF c \in solid THEN SolidHeight ELSE 0] : solid \in ObstacleSolidSets}

(* Query coordinates: outside the world on either side, with the circle    *)
(* across or exactly on an edge, and inside.                               *)
QueryCoords == {-LengthUnitsPerPixel, 0, MARBLE_RADIUS - 1, MARBLE_RADIUS, 2 * ObstacleScale + 1,
                ObstacleGridSize * ObstacleScale - MARBLE_RADIUS,
                ObstacleGridSize * ObstacleScale, ObstacleGridSize * ObstacleScale + 1}

QueryRadii == {0, MARBLE_RADIUS}

InitObstacle ==
    /\ NoRace
    /\ StartIdle
    /\ marbles = <<>>
    /\ lastResult = None
    /\ mode = "obstacle"
    /\ pc = "query"
    /\ height_field \in ObstacleFields

(* A caller asks obstacle.check_collision(x, y, radius).                   *)
CheckCollision ==
    /\ mode = "obstacle"
    /\ \E x \in QueryCoords, y \in QueryCoords, r \in QueryRadii :
          lastResult' = Some([marble_x |-> x, marble_y |-> y, marble_radius |-> r,
                              result |-> check_collision(FlowingTerrainObstacle(height_field),
                                                         x, y, r)])
    /\ UNCHANGED <<managerVars, gameModeVars, engineVars, runnerVars, raised, updateCalls,
                   setupVars, detVars, terrainVars, startVars, waveVars>>

NextObstacle == CheckCollision

SpecObstacle == InitObstacle /\ [][NextObstacle]_vars

(* The query is out of bounds: the circle extends outside the world, or    *)
(* the centre or a sample point maps outside the grid.                     *)
OutOfBoundsQuery(ob, q) ==
    LET InGrid(g) == 0 <= g[1] /\ g[1] < ob.grid_width /\ 0 <= g[2] /\ g[2] < ob.grid_height
    IN  \/ q.marble_x - q.marble_radius < 0
        \/ q.marble_x + q.marble_radius > ob.grid_width * ob.scale_x
        \/ q.marble_y - q.marble_radius < 0
        \/ q.marble_y + q.marble_radius > ob.grid_height * ob.scale_y
        \/ ~InGrid(<<IntTrunc(q.marble_x, ob.scale_x), IntTrunc(q.marble_y, ob.scale_y)>>)
        \/ \E k \in 1..16 : ~InGrid(SampleCell(ob, q.marble_x, q.marble_y, q.marble_radius, k))

(* C17: check_collision answers True to every out-of-bounds query, and no  *)
(* query makes it raise an index error.                                    *)
C17_OutOfBoundsIsSolid ==
    (mode = "obstacle" /\ IsSome(lastResult)) =>
        /\ Get(lastResult).result # "IndexError"
        /\ OutOfBoundsQuery(FlowingTerrainObstacle(height_field), Get(lastResult))
              => Get(lastResult).result = "True"

(* An open field was asked about a marble whose circle lies within the     *)
(* world and touches its right edge, so that only a sample point maps      *)
(* outside the grid, and the answer was True.                              *)
C17_Witness ==
    /\ mode = "obstacle"
    /\ IsSome(lastResult)
    /\ \A c \in ObstacleCells : height_field[c] = 0
    /\ Get(lastResult).marble_radius = MARBLE_RADIUS
    /\ Get(lastResult).marble_x + MARBLE_RADIUS = ObstacleGridSize * ObstacleScale
    /\ Get(lastResult).marble_y = 2 * ObstacleScale + 1
    /\ Get(lastResult).result = "True"

(***************************************************************************)
(* game_modes/simple_terrain_validator.py on a terrain with geometry, and  *)
(* IndivRaceGameMode.validate_and_setup_terrain over it.                   *)
(***************************************************************************)
ZoneGridWidth == 40
ZoneGridHeight == 24

ZoneArenaWidth == ZoneGridWidth * ObstacleScale
ZoneArenaHeight == ZoneGridHeight * ObstacleScale

(* spawn_zone_radius = marble_radius * 4, goal_zone_radius = * 3,          *)
(* buffer = max of the two + 20.                                           *)
spawn_zone_radius == MARBLE_RADIUS * 4
goal_zone_radius == MARBLE_RADIUS * 3
ZoneBuffer == spawn_zone_radius + 20 * LengthUnitsPerPixel

(* The values rng.uniform(lo, hi) is drawn from: every second cell edge.   *)
ZoneDrawStep == 2 * ObstacleScale
UniformDraws(lo, hi) == {lo + k * ZoneDrawStep : k \in 0..((hi - lo) \div ZoneDrawStep)}

ZonePositions ==
    UniformDraws(ZoneBuffer, ZoneArenaWidth - ZoneBuffer)
        \X UniformDraws(ZoneBuffer, ZoneArenaHeight - ZoneBuffer)

(* _is_position_clear: the zone within the arena, and its centre and four  *)
(* points at 0.7 of its radius free of terrain for a marble.               *)
is_position_clear(ob, x, y, zone_radius, marble_radius, arena_width, arena_height) ==
    /\ ~(\/ x - zone_radius < 0 \/ x + zone_radius >= arena_width
         \/ y - zone_radius < 0 \/ y + zone_radius >= arena_height)
    /\ \A t \in { <<x, y>>,
                  <<x - (zone_radius * 7) \div 10, y>>, <<x + (zone_radius * 7) \div 10, y>>,
                  <<x, y - (zone_radius * 7) \div 10>>, <<x, y + (zone_radius * 7) \div 10>> } :
          check_collision(ob, t[1], t[2], marble_radius) = "False"

(* min_distance = min(arena_width, arena_height) * 0.2.                    *)
SimpleMinDistance(arena_width, arena_height) ==
    ((IF arena_width < arena_height THEN arena_width ELSE arena_height) * 2) \div 10

(* "distance >= min_distance" on the squares.                              *)
FarEnough(s, g, arena_width, arena_height) ==
    SquaredDistance(s, g) >= SimpleMinDistance(arena_width, arena_height)
                             * SimpleMinDistance(arena_width, arena_height)

(* _find_any_valid_zones with the terrain looked into: every pair its two  *)
(* loops can return, and None, which either loop can end with.             *)
FindAnyValidZones(ob, arena_width, arena_height) ==
    {None} \cup
    { Some([spawn |-> Zone(s[1], s[2], spawn_zone_radius),
            goal |-> Zone(g[1], g[2], goal_zone_radius)]) :
        <<s, g>> \in { sg \in ZonePositions \X ZonePositions :
            /\ is_position_clear(ob, sg[1][1], sg[1][2], spawn_zone_radius, MARBLE_RADIUS,
                                 arena_width, arena_height)
            /\ FarEnough(sg[1], sg[2], arena_width, arena_height)
            /\ is_position_clear(ob, sg[2][1], sg[2][2], goal_zone_radius, MARBLE_RADIUS,
                                 arena_width, arena_height) } }

ZoneCells == (0..(ZoneGridWidth - 1)) \X (0..(ZoneGridHeight - 1))

(* The terrains of the validation: open, cut in two by a solid wall from   *)
(* top to bottom, or with a wall that leaves its lowest cells open.        *)
ZoneWallColumns == {ZoneGridWidth \div 2 - 1, ZoneGridWidth \div 2}
ZoneFields ==
    { [c \in ZoneCells |-> IF c[1] \in ZoneWallColumns /\ c[2] < rows THEN SolidHeight ELSE 0] :
        rows \in {0, ZoneGridHeight - 2, ZoneGridHeight} }

InitZones ==
    /\ NoRace
    /\ StartIdle
    /\ marbles = <<>>
    /\ lastResult = None
    /\ mode = "zones"
    /\ pc = "terrain"
    /\ height_field \in ZoneFields

(* game_mode.validate_and_setup_terrain([obstacle]).                       *)
ValidateAndSetupTerrain ==
    /\ mode = "zones"
    /\ pc = "terrain"
    /\ \E z \in FindAnyValidZones(FlowingTerrainObstacle(height_field),
                                  ZoneArenaWidth, ZoneArenaHeight) :
          LET r == validate_and_setup_terrain([zones |-> z, draws |-> 0], spawn_zone, goal_zone)
          IN  /\ spawn_zone' = r.spawn_zone
              /\ goal_zone' = r.goal_zone
              /\ lastResult' = Some(<<"validate_and_setup_terrain", r.ok>>)
    /\ pc' = "validated"
    /\ UNCHANGED <<managerVars, gm_winner_marble_id, engineVars, mode, running, accumulator,
                   raised, updateCalls, setupVars, detVars, terrainVars, startVars, waveVars>>

NextZones == ValidateAndSetupTerrain

SpecZones == InitZones /\ [][NextZones]_vars

(* The cells of the field that are not solid for the obstacle and that a   *)
(* 4-neighbour walk over such cells reaches from the frontier.             *)
RECURSIVE OpenReach(_, _, _)
OpenReach(ob, seen, frontier) ==
    LET next == { n \in UNION { { <<c[1] - 1, c[2]>>, <<c[1] + 1, c[2]>>,
                                  <<c[1], c[2] - 1>>, <<c[1], c[2] + 1>> } : c \in frontier } :
                    /\ n \in DOMAIN ob.height_field
                    /\ n \notin seen
                    /\ ~IsSolidHeight(ob, ob.height_field[n]) }
    IN  IF next = {} THEN seen ELSE OpenReach(ob, seen \cup next, next)

CellOf(ob, x, y) == <<IntTrunc(x, ob.scale_x), IntTrunc(y, ob.scale_y)>>

Reachable(ob, from, to) ==
    CellOf(ob, to.center_x, to.center_y)
        \in OpenReach(ob, {CellOf(ob, from.center_x, from.center_y)},
                      {CellOf(ob, from.center_x, from.center_y)})

(* C14 as claimed: a race is given zones only if the goal zone can be      *)
(* reached from the spawn zone through open space; a terrain with no       *)
(* reachable pair is given none.                                           *)
C14_ZonesOnlyIfReachable ==
    (mode = "zones" /\ IsSome(spawn_zone) /\ IsSome(goal_zone)) =>
        Reachable(FlowingTerrainObstacle(height_field), Get(spawn_zone), Get(goal_zone))

(* C15 as claimed: the centres of a returned pair are at least             *)
(* MIN_SPAWN_GOAL_DISTANCE_FACTOR (a quarter) of the arena diagonal apart. *)
C15_SeparationOfDiagonalFraction ==
    (mode = "zones" /\ IsSome(spawn_zone) /\ IsSome(goal_zone)) =>
        16 * SquaredDistance(<<Get(spawn_zone).center_x, Get(spawn_zone).center_y>>,
                             <<Get(goal_zone).center_x, Get(goal_zone).center_y>>)
            >= ZoneArenaWidth * ZoneArenaWidth + ZoneArenaHeight * ZoneArenaHeight

(***************************************************************************)
(* physics/collision.py: CollisionDetector against terrain, the arena      *)
(* boundary and another marble.  A normal is kept as a vector <<nx, ny>>   *)
(* of any length and divided by its length where it is used.               *)
(***************************************************************************)
COLLISION_MAX_SEPARATION_ITERATIONS == 4
COLLISION_BOUNDARY_PRECISION == TRUE

(* position_tolerance (0.1) and boundary_margin (10.0) in 1/60 px.         *)
PositionTolerance == (COLLISION_POSITION_TOLERANCE_TENTHS * LengthUnitsPerPixel) \div 10
BoundaryMargin == 10 * LengthUnitsPerPixel

(* separation_step = marble.radius * terrain_step_size (0.2).              *)
SeparationStep(radius) == (radius * 2) \div 10

(* floor(a * total / |n|) for the component a of the normal n.             *)
AlongNormal(a, total, n) ==
    LET nn == n[1] * n[1] + n[2] * n[2]
        q == SqrtBetween((a * a * total * total) \div nn, 0, total)
    IN  IF a = 0 THEN 0
        ELSE IF n[1] = 0 \/ n[2] = 0 THEN (IF a > 0 THEN total ELSE -total)
        ELSE IF a > 0 THEN q
        ELSE IF q * q * nn = a * a * total * total THEN -q ELSE -q - 1

(* _find_escape_direction_simple: up, right, down, left, else right.       *)
find_escape_direction_simple(ob, marble_x, marble_y) ==
    LET grid_x == IntTrunc(marble_x, ob.scale_x)
        grid_y == IntTrunc(marble_y, ob.scale_y)
        directions == << <<0, -1>>, <<1, 0>>, <<0, 1>>, <<-1, 0>> >>
        Open(d) == /\ 0 <= grid_x + d[1] /\ grid_x + d[1] < ob.grid_width
                   /\ 0 <= grid_y + d[2] /\ grid_y + d[2] < ob.grid_height
                   /\ ~IsSolidHeight(ob, HeightAt(ob, grid_x + d[1], grid_y + d[2]))
    IN  IF \E i \in 1..4 : Open(directions[i])
        THEN directions[CHOOSE i \in 1..4 : Open(directions[i])
                                            /\ \A j \in 1..(i - 1) : ~Open(directions[j])]
        ELSE <<1, 0>>

(* get_collision_normal: a boundary normal within the margin of an edge,   *)
(* else minus the central-difference gradient at the clamped cell, else    *)
(* the escape direction.                                                   *)
get_collision_normal(ob, marble_x, marble_y) ==
    LET world_width == ob.grid_width * ob.scale_x
        world_height == ob.grid_height * ob.scale_y
        Clamp(g, n) == IF g < 1 THEN 1 ELSE IF g > n - 2 THEN n - 2 ELSE g
        grid_x == Clamp(IntTrunc(marble_x, ob.scale_x), ob.grid_width)
        grid_y == Clamp(IntTrunc(marble_y, ob.scale_y), ob.grid_height)
        gradient_x == HeightAt(ob, grid_x + 1, grid_y) - HeightAt(ob, grid_x - 1, grid_y)
        gradient_y == HeightAt(ob, grid_x, grid_y + 1) - HeightAt(ob, grid_x, grid_y - 1)
    IN  IF marble_x < BoundaryMargin THEN <<1, 0>>
        ELSE IF marble_x > world_width - BoundaryMargin THEN <<-1, 0>>
        ELSE IF marble_y < BoundaryMargin THEN <<0, 1>>
        ELSE IF marble_y > world_height - BoundaryMargin THEN <<0, -1>>
        ELSE IF gradient_x # 0 \/ gradient_y # 0 THEN <<-gradient_x, -gradient_y>>
        ELSE find_escape_direction_simple(ob, marble_x, marble_y)

(* The number of separation steps the loop takes: it stops at the first    *)
(* position check_collision clears, and after the last step it does not    *)
(* look again.                                                             *)
SeparationSteps(ob, m, n) ==
    LET Collides(k) ==
            check_collision(ob, m.x + AlongNormal(n[1], k * SeparationStep(m.radius), n),
                                m.y + AlongNormal(n[2], k * SeparationStep(m.radius), n),
                            m.radius) = "True"
        clear == {k \in 0..(COLLISION_MAX_SEPARATION_ITERATIONS - 1) : ~Collides(k)}
    IN  IF clear = {} THEN COLLISION_MAX_SEPARATION_ITERATIONS
        ELSE CHOOSE k \in clear : \A j \in clear : k <= j

(* _resolve_terrain_collision: the marble afterwards and the value         *)
(* returned.                                                               *)
resolve_terrain_collision(m, ob) ==
    IF check_collision(ob, m.x, m.y, m.radius) # "True"
    THEN [marble |-> m, returned |-> FALSE]
    ELSE LET n == get_collision_normal(ob, m.x, m.y)
             nn == n[1] * n[1] + n[2] * n[2]
             along == m.velocity_x * n[1] + m.velocity_y * n[2]
             reflected == IF along < 0
                          THEN normalize_velocity(
                                   [m EXCEPT !.velocity_x = @ - (2 * along * n[1]) \div nn,
                                             !.velocity_y = @ - (2 * along * n[2]) \div nn])
                          ELSE m
             k == SeparationSteps(ob, m, n)
         IN  [marble |-> [reflected EXCEPT
                            !.x = @ + AlongNormal(n[1], k * SeparationStep(m.radius), n),
                            !.y = @ + AlongNormal(n[2], k * SeparationStep(m.radius), n)],
              returned |-> TRUE]

(* The boundary offset as if boundary_precision were off.                  *)
BoundaryOffset_Mut == PositionTolerance

(* "if self.boundary_precision: exactly at boundary, else + tolerance".    *)
BoundaryOffset == IF COLLISION_BOUNDARY_PRECISION THEN 0 ELSE PositionTolerance

(* An impulse of nothing: the marbles pass through each other.             *)
Impulse_Mut(relative_speed) == 0

(* "impulse = relative_speed  # Since mass = 1 for both marbles".          *)
Impulse(relative_speed) == relative_speed

(* velocity *= velocity_damping (0.999), then _normalize_velocity.         *)
DampAndNormalize(m) ==
    normalize_velocity([m EXCEPT !.velocity_x = IntTrunc(@ * 999, 1000),
                                 !.velocity_y = IntTrunc(@ * 999, 1000)])

(* Each marble moved by the whole overlap.                                 *)
SeparationDistance_Mut(overlap) == overlap

(* "separation_distance = (overlap * self.separation_factor) / 2", the     *)
(* factor being 1.0.                                                       *)
SeparationDistance(overlap) == overlap \div 2

(* _resolve_marble_collision: the two marbles afterwards and the value     *)
(* returned.                                                               *)
resolve_marble_collision(marble1, marble2) ==
    LET dx == marble2.x - marble1.x
        dy == marble2.y - marble1.y
        squared == dx * dx + dy * dy
        min_distance == marble1.radius + marble2.radius
        near == squared < PositionTolerance * PositionTolerance
        \* atan2(dy + 0.01, dx + 0.01): the direction of (dx + 0.6, dy + 0.6) units
        \* dx / distance and dy / distance are exact along an axis
        n == IF near THEN <<10 * dx + 6, 10 * dy + 6>>
             ELSE IF dy = 0 THEN <<dx \div Abs(dx), 0>>
             ELSE IF dx = 0 THEN <<0, dy \div Abs(dy)>>
             ELSE <<dx, dy>>
        nn == n[1] * n[1] + n[2] * n[2]
        distance == IF near THEN PositionTolerance ELSE SqrtBetween(squared, 0, min_distance)
        separation_distance == SeparationDistance(min_distance - distance)
        moved1 == [marble1 EXCEPT !.x = @ - AlongNormal(n[1], separation_distance, n),
                                  !.y = @ - AlongNormal(n[2], separation_distance, n)]
        moved2 == [marble2 EXCEPT !.x = @ + AlongNormal(n[1], separation_distance, n),
                                  !.y = @ + AlongNormal(n[2], separation_distance, n)]
        relative_speed == (marble2.velocity_x - marble1.velocity_x) * n[1]
                          + (marble2.velocity_y - marble1.velocity_y) * n[2]
        ix == (Impulse(relative_speed) * n[1]) \div nn
        iy == (Impulse(relative_speed) * n[2]) \div nn
    IN  IF squared >= (min_distance - PositionTolerance) * (min_distance - PositionTolerance)
        THEN [marble1 |-> marble1, marble2 |-> marble2, returned |-> FALSE]
        ELSE IF relative_speed >= 0
        THEN [marble1 |-> moved1, marble2 |-> moved2, returned |-> TRUE]
        ELSE [marble1 |-> DampAndNormalize(normalize_velocity(
                              [moved1 EXCEPT !.velocity_x = @ + ix, !.velocity_y = @ + iy])),
              marble2 |-> DampAndNormalize(normalize_velocity(
                              [moved2 EXCEPT !.velocity_x = @ - ix, !.velocity_y = @ - iy])),
              returned |-> TRUE]

(* _resolve_boundary_collisions.                                           *)
resolve_boundary_collisions(m, arena_width, arena_height) ==
    LET offset == BoundaryOffset
        left == m.x - m.radius < 0
        right == ~left /\ m.x + m.radius > arena_width
        top == m.y - m.radius < 0
        bottom == ~top /\ m.y + m.radius > arena_height
        flip_x == (left /\ m.velocity_x < 0) \/ (right /\ m.velocity_x > 0)
        flip_y == (top /\ m.velocity_y < 0) \/ (bottom /\ m.velocity_y > 0)
        moved == [m EXCEPT
                    !.x = IF left THEN m.radius + offset
                          ELSE IF right THEN arena_width - m.radius - offset ELSE @,
                    !.y = IF top THEN m.radius + offset
                          ELSE IF bottom THEN arena_height - m.radius - offset ELSE @,
                    !.velocity_x = IF flip_x THEN -@ ELSE @,
                    !.velocity_y = IF flip_y THEN -@ ELSE @]
    IN  IF flip_x \/ flip_y THEN normalize_velocity(moved) ELSE moved

DetectorArena == ObstacleGridSize * ObstacleScale

(* Marble centres: across each arena edge, on it, and inside.              *)
DetectorCoords == {MARBLE_RADIUS - LengthUnitsPerPixel, MARBLE_RADIUS, DetectorArena \div 2,
                   3 * ObstacleScale, DetectorArena - MARBLE_RADIUS,
                   DetectorArena - MARBLE_RADIUS + LengthUnitsPerPixel}

(* A marble at its fixed speed in one of the twelve lattice directions.    *)
DetectorMarbles ==
    { [x |-> x, y |-> y, radius |-> MARBLE_RADIUS, speed |-> MARBLE_SPEED,
       velocity_x |-> Polar(i, MARBLE_SPEED)[1], velocity_y |-> Polar(i, MARBLE_SPEED)[2]] :
        x \in DetectorCoords, y \in DetectorCoords, i \in 1..12 }

(* Two marbles level with each other, each moving along the x axis at its *)
(* speed; the second lies at a gap from the first: almost on it, well      *)
(* overlapping, overlapping by less than the tolerance, or just touching.  *)
DetectorGaps == {PositionTolerance \div 2, 2 * MARBLE_RADIUS - 10 * LengthUnitsPerPixel,
                 2 * MARBLE_RADIUS - PositionTolerance \div 2, 2 * MARBLE_RADIUS}

DetectorPairs ==
    { << [x |-> DetectorArena \div 2, y |-> DetectorArena \div 2, radius |-> MARBLE_RADIUS,
          speed |-> MARBLE_SPEED, velocity_x |-> v1, velocity_y |-> 0],
         [x |-> DetectorArena \div 2 + side * gap, y |-> DetectorArena \div 2,
          radius |-> MARBLE_RADIUS, speed |-> MARBLE_SPEED, velocity_x |-> v2, velocity_y |-> 0] >> :
        v1 \in {MARBLE_SPEED, -MARBLE_SPEED}, v2 \in {MARBLE_SPEED, -MARBLE_SPEED},
        side \in {1, -1}, gap \in DetectorGaps }

(* Two marbles whose centres lie 30 and 40 units apart on the two axes, so *)
(* 50 units from each other along a slanted line.                          *)
DetectorSlantPairs ==
    { << [x |-> DetectorArena \div 2, y |-> DetectorArena \div 2, radius |-> MARBLE_RADIUS,
          speed |-> MARBLE_SPEED, velocity_x |-> v1, velocity_y |-> 0],
         [x |-> DetectorArena \div 2 + side * 30, y |-> DetectorArena \div 2 + 40,
          radius |-> MARBLE_RADIUS, speed |-> MARBLE_SPEED, velocity_x |-> v2, velocity_y |-> 0] >> :
        v1 \in {MARBLE_SPEED, -MARBLE_SPEED}, v2 \in {MARBLE_SPEED, -MARBLE_SPEED},
        side \in {1, -1} }

InitDetector ==
    /\ NoRace
    /\ StartIdle
    /\ lastResult = None
    /\ mode = "collision"
    /\ pc = "detect"
    /\ \/ /\ height_field \in ObstacleFields
          /\ marbles \in [1..1 -> DetectorMarbles]
       \/ /\ height_field = [c \in ObstacleCells |-> 0]
          /\ marbles \in DetectorPairs \cup DetectorSlantPairs

DetectorUnchanged ==
    UNCHANGED <<simulation_time, game_finished, winner_marble_id, gameModeVars, engineVars,
                mode, running, accumulator, raised, updateCalls, setupVars, detVars, terrainVars, startVars, waveVars>>

(* detector._resolve_terrain_collision(marble, obstacle).                  *)
ResolveTerrainCollision ==
    /\ mode = "collision"
    /\ pc = "detect"
    /\ Len(marbles) = 1
    /\ LET r == resolve_terrain_collision(marbles[1], FlowingTerrainObstacle(height_field))
       IN  /\ marbles' = <<r.marble>>
           /\ lastResult' = Some([before |-> marbles, returned |-> r.returned])
    /\ pc' = "terrain resolved"
    /\ DetectorUnchanged

(* detector._resolve_boundary_collisions(marble, arena_width, height).     *)
ResolveBoundaryCollisions ==
    /\ mode = "collision"
    /\ pc = "detect"
    /\ Len(marbles) = 1
    /\ marbles' = <<resolve_boundary_collisions(marbles[1], DetectorArena, DetectorArena)>>
    /\ lastResult' = Some([before |-> marbles, returned |-> TRUE])
    /\ pc' = "boundary resolved"
    /\ DetectorUnchanged

(* marble.update(dt, arena_width, arena_height) with dt one fixed step.    *)
UpdateMarble ==
    /\ mode = "collision"
    /\ pc = "detect"
    /\ Len(marbles) = 1
    /\ marbles' = <<MarbleUpdate(marbles[1], FIXED_TIMESTEP, DetectorArena, DetectorArena)>>
    /\ lastResult' = Some([before |-> marbles, returned |-> TRUE])
    /\ pc' = "marble updated"
    /\ DetectorUnchanged

(* detector._resolve_marble_collision(marbles[0], marbles[1]).             *)
ResolveMarbleCollision ==
    /\ mode = "collision"
    /\ pc = "detect"
    /\ Len(marbles) = 2
    /\ LET r == resolve_marble_collision(marbles[1], marbles[2])
       IN  /\ marbles' = <<r.marble1, r.marble2>>
           /\ lastResult' = Some([before |-> marbles, returned |-> r.returned])
    /\ pc' = "marbles resolved"
    /\ DetectorUnchanged

NextDetector ==
    \/ ResolveTerrainCollision
    \/ ResolveBoundaryCollisions
    \/ UpdateMarble
    \/ ResolveMarbleCollision

SpecDetector == InitDetector /\ [][NextDetector]_vars

(* C16 as claimed: after a terrain collision resolution that returned      *)
(* True the marble is clear of the terrain to within the position          *)
(* tolerance.                                                              *)
C16_ResolvedMarbleIsOutsideTerrain ==
    (mode = "collision" /\ pc = "terrain resolved" /\ Get(lastResult).returned) =>
        check_collision(FlowingTerrainObstacle(height_field), marbles[1].x, marbles[1].y,
                        marbles[1].radius - PositionTolerance) = "False"

(* The two marbles overlap and approach each other head-on along the x     *)
(* axis at equal speed.                                                    *)
HeadOn(m1, m2) ==
    /\ m1.radius = m2.radius
    /\ m1.y = m2.y
    /\ m1.x # m2.x
    /\ Abs(m2.x - m1.x) < m1.radius + m2.radius
    /\ m1.velocity_y = 0 /\ m2.velocity_y = 0
    /\ m1.velocity_x = -m2.velocity_x
    /\ (m2.x - m1.x) * (m2.velocity_x - m1.velocity_x) < 0

Swapped(before, after) ==
    /\ after[1].velocity_x = before[2].velocity_x
    /\ after[2].velocity_x = before[1].velocity_x
    /\ after[1].velocity_y = 0 /\ after[2].velocity_y = 0
    /\ \A i \in 1..2 : after[i].velocity_x * after[i].velocity_x
                       + after[i].velocity_y * after[i].velocity_y
                       = after[i].speed * after[i].speed

(* C18 as claimed: overlapping marbles approaching head-on along the x     *)
(* axis at equal speed have their x velocities swapped by one              *)
(* _resolve_marble_collision, their y velocities still zero.               *)
C18_HeadOnSwapsAnyOverlap ==
    (mode = "collision" /\ pc = "marbles resolved"
     /\ HeadOn(Get(lastResult).before[1], Get(lastResult).before[2]))
        => Swapped(Get(lastResult).before, marbles)

(* C18, amended: the same for marbles whose centres are at least the       *)
(* position tolerance apart and which overlap by more than it.             *)
C18_HeadOnSwaps ==
    (mode = "collision" /\ pc = "marbles resolved"
     /\ HeadOn(Get(lastResult).before[1], Get(lastResult).before[2])
     /\ Abs(Get(lastResult).before[2].x - Get(lastResult).before[1].x) >= PositionTolerance
     /\ Abs(Get(lastResult).before[2].x - Get(lastResult).before[1].x)
            < 2 * MARBLE_RADIUS - PositionTolerance)
        => Swapped(Get(lastResult).before, marbles)

(* A head-on pair ten pixels into each other was resolved.                 *)
C18_Witness ==
    /\ mode = "collision"
    /\ pc = "marbles resolved"
    /\ HeadOn(Get(lastResult).before[1], Get(lastResult).before[2])
    /\ Abs(Get(lastResult).before[2].x - Get(lastResult).before[1].x)
          = 2 * MARBLE_RADIUS - 10 * LengthUnitsPerPixel
    /\ Get(lastResult).returned
    /\ marbles[1].velocity_x = -Get(lastResult).before[1].velocity_x

(* Left-boundary handling of a marble moving left, by the detector and by  *)
(* Marble.update (which first moves the marble): the x velocity is         *)
(* flipped, x is clamped to the radius plus the given offset, and unless   *)
(* the marble also touches the top or bottom, its y velocity and the y it  *)
(* had when the handling began are kept.                                   *)
LeftBoundaryHandled(detector_offset, update_offset) ==
    LET b == Get(lastResult).before[1]
        a == marbles[1]
        x1 == b.x + Displacement(b.velocity_x, FIXED_TIMESTEP)
        y1 == b.y + Displacement(b.velocity_y, FIXED_TIMESTEP)
    IN  /\ (mode = "collision" /\ pc = "boundary resolved"
            /\ b.velocity_x < 0 /\ b.x - b.radius < 0) =>
              /\ a.velocity_x = -b.velocity_x
              /\ a.x = a.radius + detector_offset
              /\ (b.y - b.radius >= 0 /\ b.y + b.radius <= DetectorArena) =>
                    (a.velocity_y = b.velocity_y /\ a.y = b.y)
        /\ (mode = "collision" /\ pc = "marble updated"
            /\ b.velocity_x < 0 /\ x1 - b.radius < 0) =>
              /\ a.velocity_x = -b.velocity_x
              /\ a.x = a.radius + update_offset
              /\ (/\ y1 - b.radius >= BoundaryTolerance
                  /\ y1 + b.radius <= DetectorArena - BoundaryTolerance) =>
                    (a.velocity_y = b.velocity_y /\ a.y = y1)

(* C19 as claimed: a marble moving left across the left boundary has its   *)
(* x velocity flipped, its x clamped to exactly its radius, and its y      *)
(* velocity and position left alone, in either boundary handling.          *)
C19_LeftClampExactlyRadius == LeftBoundaryHandled(0, 0)

(* C19, amended: the same, with x clamped to exactly the radius by the     *)
(* detector and to the radius plus the 0.1 tolerance by Marble.update.     *)
C19_LeftBoundaryReflects == LeftBoundaryHandled(0, BoundaryTolerance)

(* Marble.update moved a marble that travels left and up or down across    *)
(* the left boundary, away from the top and bottom, and put it back.       *)
C19_Witness ==
    /\ mode = "collision"
    /\ pc = "marble updated"
    /\ Get(lastResult).before[1].velocity_x < 0
    /\ Get(lastResult).before[1].velocity_y # 0
    /\ Get(lastResult).before[1].x + Displacement(Get(lastResult).before[1].velocity_x,
                                                  FIXED_TIMESTEP) < MARBLE_RADIUS
    /\ Get(lastResult).before[1].y = DetectorArena \div 2
    /\ marbles[1].x = MARBLE_RADIUS + BoundaryTolerance
    /\ marbles[1].velocity_x > 0

----------------------------------------------------------------------------
(* C20: the clock starts at -3.0 seconds and never decreases in a run:     *)
(* every countdown tick increases it, and every update of the main loop    *)
(* increases it by exactly the fixed timestep it was passed.               *)
ClockStep ==
    /\ simulation_time' >= simulation_time
    /\ (pc = "countdown" /\ pc' = "countdown") => simulation_time' > simulation_time
    /\ (pc \in {"running", "updating"} /\ updateCalls' # updateCalls)
          => simulation_time' = simulation_time + FIXED_TIMESTEP

C20_ClockStartsAtMinusThreeAndNeverDecreases ==
    /\ simulation_time = -3 * TimeUnitsPerSecond
    /\ [][ClockStep]_vars

(* The headless countdown has run from -3.0 to 0 and the first update of   *)
(* the main loop has advanced the clock by one timestep.                   *)
C20_Witness ==
    /\ mode = "headless"
    /\ updateCalls = 1
    /\ simulation_time = FIXED_TIMESTEP

----------------------------------------------------------------------------
(* Start-up: main (main.py), the rng module's configuration (rng.py), the  *)
(* runtime overrides of SimulationConfig (config.py) and the construction  *)
(* of the manager by run_headless_mode / run_graphics_mode (runner.py).    *)
(* A race is started either by main() with a parsed command line, or by a  *)
(* caller that sets the runtime parameters and calls a run function, which *)
(* simulation/__init__.py exports.                                         *)
(*                                                                         *)
(* Python values whose type decides a comparison are records: a str and a  *)
(* member of the Enum RNGMode with the same text are different values, and *)
(* a float is a number of hundredths or NaN.  Arena sizes are in pixels.   *)

PyStr(text) == [type |-> "str", value |-> text]
RNGMode(text) == [type |-> "RNGMode", value |-> text]
Float(hundredths) == [nan |-> FALSE, v |-> hundredths]
NaN == [nan |-> TRUE, v |-> 0]
(* The float comparisons a < b and a > b: False when either is NaN.        *)
FloatLess(a, b) == ~a.nan /\ ~b.nan /\ a.v < b.v
FloatGreater(a, b) == FloatLess(b, a)
(* bool(x) of a float: 0.0 is false, NaN is true.                          *)
FloatTruthy(a) == a.nan \/ a.v # 0

DEFAULT_NUM_MARBLES == 8
DEFAULT_ARENA_WIDTH == ARENA_WIDTH \div LengthUnitsPerPixel
DEFAULT_ARENA_HEIGHT == ARENA_HEIGHT \div LengthUnitsPerPixel
DEFAULT_TERRAIN_COMPLEXITY == Float(TERRAIN_COMPLEXITY_PCT)
MinArenaSide == 200

(* The command lines and parameter values the model starts a race with.    *)
MarbleArgs == {-1, 0, 1, DEFAULT_NUM_MARBLES}
ComplexityArgs == {Float(-1), Float(0), Float(50), Float(TERRAIN_COMPLEXITY_PCT),
                   Float(100), Float(101), NaN}
WidthArgs == {MinArenaSide - 1, DEFAULT_ARENA_WIDTH}
HeightArgs == {MinArenaSide - 1, MinArenaSide, DEFAULT_ARENA_HEIGHT}
RngModeArgs == {"date", "random", "set"}
RngValueArgs == {None, Some(1), Some(2)}
Today == 20261103
ImportTime == 1793748000
Now == 1793748336

CommandLines ==
    [marbles : MarbleArgs, terrain_complexity : ComplexityArgs, arena_width : WidthArgs,
     arena_height : HeightArgs, rng_mode : RngModeArgs, rng_value : RngValueArgs,
     headless : BOOLEAN]

(* SimulationConfig's _runtime_* class attributes, all None.               *)
NoOverrides == [num_marbles |-> None, arena_width |-> None, arena_height |-> None,
                terrain_complexity |-> None]

(* set_runtime_parameters: every argument that is not None is stored.      *)
set_runtime_parameters(rt, num_marbles, arena_width, arena_height, terrain_complexity) ==
    [num_marbles |-> IF num_marbles # None THEN num_marbles ELSE rt.num_marbles,
     arena_width |-> IF arena_width # None THEN arena_width ELSE rt.arena_width,
     arena_height |-> IF arena_height # None THEN arena_height ELSE rt.arena_height,
     terrain_complexity |-> IF terrain_complexity # None THEN terrain_complexity
                            ELSE rt.terrain_complexity]

(* override or default, for an int and for a float override.               *)
IntOr(override, default) ==
    IF override # None /\ Get(override) # 0 THEN Get(override) ELSE default

FloatOr(override, default) ==
    IF override # None /\ FloatTruthy(Get(override)) THEN Get(override) ELSE default

(* The properties NUM_MARBLES, ARENA_WIDTH, ARENA_HEIGHT and               *)
(* TERRAIN_COMPLEXITY of SimulationConfig.                                 *)
NUM_MARBLES(rt) == IntOr(rt.num_marbles, DEFAULT_NUM_MARBLES)
ARENA_WIDTH_PX(rt) == IntOr(rt.arena_width, DEFAULT_ARENA_WIDTH)
ARENA_HEIGHT_PX(rt) == IntOr(rt.arena_height, DEFAULT_ARENA_HEIGHT)
TERRAIN_COMPLEXITY(rt) == FloatOr(rt.terrain_complexity, DEFAULT_TERRAIN_COMPLEXITY)

(* RNGConfig._initialize_seed: the mode is compared with the members of    *)
(* RNGMode; any other value ends in ValueError.                            *)
InitializeSeed(rng_mode, seed_value) ==
    IF rng_mode = RNGMode("date") THEN [raised |-> "", seed |-> Some(Today)]
    ELSE IF rng_mode = RNGMode("random") THEN [raised |-> "", seed |-> Some(Now)]
    ELSE IF rng_mode = RNGMode("set")
         THEN IF seed_value = None THEN [raised |-> "ValueError", seed |-> None]
              ELSE [raised |-> "", seed |-> seed_value]
    ELSE [raised |-> "ValueError", seed |-> None]

(* configure_rng(mode, seed_value): the global is replaced only when the   *)
(* RNGConfig constructor returns.  stream is the seed Python's random has  *)
(* been given.                                                             *)
configure_rng(old, rng_mode, seed_value) ==
    LET s == InitializeSeed(rng_mode, seed_value)
    IN  IF s.raised # "" THEN [raised |-> s.raised, config |-> old]
        ELSE [raised |-> "",
              config |-> [mode |-> rng_mode, seed_value |-> seed_value,
                          current_seed |-> Get(s.seed), stream |-> Get(s.seed)]]

(* The module-level _rng_config = RNGConfig(): mode RANDOM, seeded with    *)
(* the time of the import.                                                 *)
ImportedRngConfig ==
    [mode |-> RNGMode("random"), seed_value |-> None, current_seed |-> ImportTime,
     stream |-> ImportTime]

get_current_seed(config) == config.current_seed

(* The three validations of main (main.py:58-73): TRUE when main goes on.  *)
MainAcceptsMarbles(a) == ~(a.marbles < 1)
MainAcceptsComplexity(a) ==
    ~(FloatLess(a.terrain_complexity, Float(0)) \/ FloatGreater(a.terrain_complexity, Float(100)))
MainAcceptsArena(a) == ~(a.arena_width < MinArenaSide \/ a.arena_height < MinArenaSide)

(* The fields SimulationManager.__init__ reads from the config.            *)
ManagerFields(rt) ==
    [num_marbles |-> NUM_MARBLES(rt), arena_width |-> ARENA_WIDTH_PX(rt),
     arena_height |-> ARENA_HEIGHT_PX(rt), terrain_complexity |-> TERRAIN_COMPLEXITY(rt)]

(* SimulationManager(): the fields are read, _generate_valid_terrain       *)
(* generates its MaxAttempts terrains with the complexity it was passed    *)
(* and validates them; with a valid terrain the engine is created and      *)
(* _initialize_marbles creates one marble per spawn position               *)
(* (range(num_marbles) is empty for a count below 1); without one          *)
(* RuntimeError is raised.                                                 *)
SimulationManager(rt) ==
    LET f == ManagerFields(rt)
    IN  /\ manager_config' = Some(f)
        /\ generated' = MaxAttempts
        /\ \/ /\ raised' = "RuntimeError"
              /\ pc' = "crashed"
              /\ UNCHANGED <<marbles, spawn_zone, goal_zone>>
           \/ \E zp \in ZonePairs :
                LET sz == Zone(zp[1][1], zp[1][2], MARBLE_RADIUS * 4)
                    sp == get_spawn_positions(sz, f.num_marbles, MARBLE_RADIUS, {})
                IN  /\ spawn_zone' = Some(sz)
                    /\ goal_zone' = Some(Zone(zp[2][1], zp[2][2], MARBLE_RADIUS * 3))
                    /\ marbles' = [i \in 1..f.num_marbles |->
                                      Marble(sp.positions[i][1], sp.positions[i][2],
                                             MARBLE_RADIUS, MARBLE_SPEED,
                                             (4 * (i - 1)) \div f.num_marbles)]
                    /\ raised' = ""
                    /\ pc' = "constructed"

StartUnchanged ==
    UNCHANGED <<simulation_time, game_finished, winner_marble_id, gm_winner_marble_id,
                engineVars, mode, running, accumulator, updateCalls, lastResult,
                spc, terrain_candidates, terrain_generator, terrain_obstacles, engine_created,
                validated, batchEndPos, lastValidationDraws, zonesFrom, detVars, terrainVars,
                waveVars>>

InitStart ==
    /\ NoRace
    /\ TerrainIdle
    /\ cli_args = None
    /\ runtime = NoOverrides
    /\ manager_config = None
    /\ rng_config = ImportedRngConfig
    /\ wave = <<>>
    /\ marbles = <<>>
    /\ lastResult = None
    /\ mode \in {"main", "api"}
    /\ pc = "start"

(* main(): the command line is parsed; 'set' without a value exits; the    *)
(* RNG is configured with the mode as the str argparse returned (an        *)
(* exception here leaves main); the three validations exit with status 1;  *)
(* the runtime parameters are set and the run function constructs the      *)
(* manager.                                                                *)
Main ==
    /\ mode = "main"
    /\ pc = "start"
    /\ \E a \in CommandLines :
         /\ cli_args' = Some(a)
         /\ IF a.rng_mode = "set" /\ a.rng_value = None
            THEN /\ pc' = "exit 1"
                 /\ UNCHANGED <<rng_config, runtime, manager_config, generated, marbles, spawn_zone,
                                goal_zone, raised>>
            ELSE LET r == configure_rng(rng_config, PyStr(a.rng_mode), a.rng_value)
                 IN  /\ rng_config' = r.config
                     /\ IF r.raised # ""
                        THEN /\ raised' = r.raised
                             /\ pc' = "crashed"
                             /\ UNCHANGED <<runtime, manager_config, generated, marbles,
                                            spawn_zone, goal_zone>>
                        ELSE IF ~(MainAcceptsMarbles(a) /\ MainAcceptsComplexity(a)
                                  /\ MainAcceptsArena(a))
                        THEN /\ pc' = "exit 1"
                             /\ UNCHANGED <<runtime, manager_config, generated, marbles,
                                            spawn_zone, goal_zone, raised>>
                        ELSE /\ runtime' = set_runtime_parameters(runtime, Some(a.marbles),
                                               Some(a.arena_width), Some(a.arena_height),
                                               Some(a.terrain_complexity))
                             /\ SimulationManager(runtime')
    /\ StartUnchanged

(* A caller sets the runtime parameters itself.                            *)
SetRuntimeParameters ==
    /\ mode = "api"
    /\ pc = "start"
    /\ \E n \in MarbleArgs, w \in WidthArgs, h \in HeightArgs, c \in ComplexityArgs :
         runtime' = set_runtime_parameters(runtime, Some(n), Some(w), Some(h), Some(c))
    /\ pc' = "configured"
    /\ UNCHANGED <<cli_args, rng_config, manager_config, generated, marbles, spawn_zone, goal_zone, raised>>
    /\ StartUnchanged

(* run_headless_mode() / run_graphics_mode() called on that configuration. *)
RunMode ==
    /\ mode = "api"
    /\ pc = "configured"
    /\ SimulationManager(runtime)
    /\ UNCHANGED <<cli_args, runtime, rng_config>>
    /\ StartUnchanged

NextStart ==
    \/ Main
    \/ SetRuntimeParameters
    \/ RunMode

SpecStart == InitStart /\ [][NextStart]_vars

(* The configuration main's messages call valid: at least one marble, a    *)
(* complexity from 0.0 to 1.0 and an arena of at least 200 x 200 pixels.   *)
ValidConfiguration(rt) ==
    /\ rt.num_marbles # None /\ Get(rt.num_marbles) >= 1
    /\ rt.terrain_complexity # None
    /\ ~Get(rt.terrain_complexity).nan
    /\ Get(rt.terrain_complexity).v >= 0 /\ Get(rt.terrain_complexity).v <= 100
    /\ rt.arena_width # None /\ Get(rt.arena_width) >= MinArenaSide
    /\ rt.arena_height # None /\ Get(rt.arena_height) >= MinArenaSide

(* C21: a race is never constructed from an invalid configuration: when a  *)
(* terrain has been generated or a marble created, the configuration the   *)
(* race was given has a marble count of at least 1, a complexity in [0, 1] *)
(* and an arena that is not too small.                                     *)
C21_InvalidConfigurationRejected ==
    (mode \in {"main", "api"} /\ (generated > 0 \/ marbles # <<>>))
        => ValidConfiguration(runtime)

(* The seed each start-up mode is to establish.                            *)
ExpectedSeed(a) ==
    IF a.rng_mode = "date" THEN Today
    ELSE IF a.rng_mode = "random" THEN Now
    ELSE Get(a.rng_value)

(* C22: for each of the three seeding modes of the command line, once main *)
(* has configured the RNG the seed is today's date, the current timestamp  *)
(* or the explicit value, the random stream is seeded with it, and         *)
(* get_current_seed returns it.                                            *)
C22_StartUpSeedEstablished ==
    (/\ mode = "main"
     /\ cli_args # None
     /\ ~(Get(cli_args).rng_mode = "set" /\ Get(cli_args).rng_value = None))
        => /\ raised # "ValueError"
           /\ get_current_seed(rng_config) = ExpectedSeed(Get(cli_args))
           /\ rng_config.stream = ExpectedSeed(Get(cli_args))

(* C30: a race configured with terrain complexity 0.0 is generated with    *)
(* complexity 0 (the border-only terrain): the complexity the manager      *)
(* passes to the generator is the 0.0 that was configured.                 *)
C30_ZeroComplexityReachesGenerator ==
    (/\ mode \in {"main", "api"}
     /\ manager_config # None
     /\ runtime.terrain_complexity = Some(Float(0)))
        => Get(manager_config).terrain_complexity = Float(0)

----------------------------------------------------------------------------
(* A marble that touches nothing during a step of dt: its straight path    *)
(* ends clear of the arena walls and of the other marbles' paths.          *)
TouchesNothing(ms, i, dt) ==
    LET at(j) == <<ms[j].x + Displacement(ms[j].velocity_x, dt),
                   ms[j].y + Displacement(ms[j].velocity_y, dt)>>
    IN  /\ at(i)[1] - ms[i].radius > BoundaryTolerance
        /\ at(i)[1] + ms[i].radius < ARENA_WIDTH - BoundaryTolerance
        /\ at(i)[2] - ms[i].radius > BoundaryTolerance
        /\ at(i)[2] + ms[i].radius < ARENA_HEIGHT - BoundaryTolerance
        /\ \A j \in 1..Len(ms) :
              j # i => SquaredDistance(at(i), at(j)) > (ms[i].radius + ms[j].radius)
                                                        * (ms[i].radius + ms[j].radius)

AdvancedOnce(before, after, dt) ==
    /\ after.x = before.x + Displacement(before.velocity_x, dt)
    /\ after.y = before.y + Displacement(before.velocity_y, dt)

(* C23: in every update(dt) of the main loop, a marble that touches        *)
(* nothing has its position advanced by exactly velocity * dt, on the      *)
(* first update of the race as on the later ones.                          *)
C23_FreeMarbleAdvancesOncePerUpdate ==
    [][(pc \in {"running", "updating"} /\ updateCalls' # updateCalls)
         => \A i \in 1..Len(marbles) :
               TouchesNothing(marbles, i, FIXED_TIMESTEP)
                  => /\ Len(marbles') = Len(marbles)
                     /\ AdvancedOnce(marbles[i], marbles'[i], FIXED_TIMESTEP)]_vars

----------------------------------------------------------------------------
(* OptimalTerrainValidator._can_reach_via_wave_simulation                  *)
(* (game_modes/optimal_terrain_validator.py): the breadth-first wave over  *)
(* a grid of wave_step_size = 0.4 marble radii, on a terrain of            *)
(* WaveTerrainWidth x WaveTerrainHeight cells of 8 px.                     *)

WaveTerrainWidth == 12
WaveTerrainHeight == 9

wave_step_size == (MARBLE_RADIUS * 4) \div 10
WaveArenaWidth == WaveTerrainWidth * ObstacleScale
WaveArenaHeight == WaveTerrainHeight * ObstacleScale

(* max_distance = int((arena_width + arena_height) / wave_step_size).      *)
WaveMaxDistance == (WaveArenaWidth + WaveArenaHeight) \div wave_step_size

(* The eight directions in the order the loop takes them.                  *)
WaveDirections == << <<-1, -1>>, <<-1, 0>>, <<-1, 1>>, <<0, -1>>, <<0, 1>>,
                     <<1, -1>>, <<1, 0>>, <<1, 1>> >>

WaveCellOf(pos) == <<IntTrunc(pos[1], wave_step_size), IntTrunc(pos[2], wave_step_size)>>

Manhattan(a, b) == Abs(a[1] - b[1]) + Abs(a[2] - b[2])

(* The bounds check with the marble radius as margin (lines 253-255).      *)
WaveInMargin(c) ==
    ~(\/ c[1] * wave_step_size < MARBLE_RADIUS
      \/ c[1] * wave_step_size >= WaveArenaWidth - MARBLE_RADIUS
      \/ c[2] * wave_step_size < MARBLE_RADIUS
      \/ c[2] * wave_step_size >= WaveArenaHeight - MARBLE_RADIUS)

(* The wave cells a neighbour may be: inside the margin and with           *)
(* terrain.check_collision false for a marble at the cell.                 *)
WaveOpenCells(ob) ==
    { c \in (0..(WaveArenaWidth \div wave_step_size)) \X (0..(WaveArenaHeight \div wave_step_size)) :
        /\ WaveInMargin(c)
        /\ check_collision(ob, c[1] * wave_step_size, c[2] * wave_step_size, MARBLE_RADIUS)
              = "False" }

(* A goal test without its tolerance.                                      *)
WaveGoalReached_Mut(cell, goal) == cell = goal

(* goal_distance <= 2: the wave is within two steps of the goal's cell.    *)
WaveGoalReached(cell, goal) == Manhattan(cell, goal) <= 2

(* Terrains: open ground; a wall two cells thick from top to bottom; the   *)
(* wall with its lower part open; a block in the middle.                   *)
WaveTerrainCells == (0..(WaveTerrainWidth - 1)) \X (0..(WaveTerrainHeight - 1))
WaveSolidSets ==
    {{}}
    \cup { { c \in WaveTerrainCells : c[1] \in {w, w + 1} } : w \in {4, 5} }
    \cup { { c \in WaveTerrainCells : c[1] \in {w, w + 1} /\ c[2] <= 1 } : w \in {4, 5} }
    \cup { { c \in WaveTerrainCells : c[1] \in {5, 6} /\ c[2] \in {3, 4, 5} } }
WaveFields ==
    { [c \in WaveTerrainCells |-> IF c \in solid THEN SolidHeight ELSE 0] : solid \in WaveSolidSets }

(* Start and goal positions, in the open, in the margin and in the rock.   *)
WaveStarts == { <<1180, 1180>>, <<4500, 2200>> }
WaveGoals == { <<x, y>> : x \in {400, 1900, 3300, 4700}, y \in {400, 2200, 4000} }

InitWave ==
    /\ NoRace
    /\ StartIdle
    /\ marbles = <<>>
    /\ lastResult = None
    /\ mode = "wave"
    /\ pc = "wave"
    /\ height_field \in WaveFields

WaveUnchanged ==
    UNCHANGED <<managerVars, gameModeVars, engineVars, mode, running, accumulator,
                raised, updateCalls, lastResult, setupVars, detVars, terrainVars, startVars>>

(* _can_reach_via_wave_simulation(terrain, start_pos, goal_pos) up to its  *)
(* loop: the start cell is marked and queued at distance 0.  queue holds   *)
(* every <<x, y, distance>> ever appended, in order, and head is the index *)
(* of the one popleft returns next.                                        *)
StartWaveSimulation ==
    /\ mode = "wave"
    /\ pc = "wave"
    /\ \E start_pos \in WaveStarts, goal_pos \in WaveGoals :
          LET start == WaveCellOf(start_pos)
          IN  wave' = [start_pos |-> start_pos, goal_pos |-> goal_pos,
                       queue |-> << <<start[1], start[2], 0>> >>, head |-> 1,
                       visited |-> {start}, returned |-> None]
    /\ pc' = "searching"
    /\ WaveUnchanged

(* Whether the loop adds a neighbour: not visited, inside the margin, and  *)
(* no terrain collision for a marble there.                                *)
WaveAdds(ob, c, visited) ==
    /\ c \notin visited
    /\ WaveInMargin(c)
    /\ check_collision(ob, c[1] * wave_step_size, c[2] * wave_step_size, MARBLE_RADIUS) = "False"

(* One pass of the while loop, or its end with the queue empty.            *)
WaveStep ==
    /\ mode = "wave"
    /\ pc = "searching"
    /\ IF wave.head > Len(wave.queue)
       THEN wave' = [wave EXCEPT !.returned = Some(FALSE)] /\ pc' = "searched"
       ELSE LET current == wave.queue[wave.head]
                cell == <<current[1], current[2]>>
            IN  IF WaveGoalReached(cell, WaveCellOf(wave.goal_pos))
                THEN wave' = [wave EXCEPT !.returned = Some(TRUE)] /\ pc' = "searched"
                ELSE IF current[3] > WaveMaxDistance
                THEN wave' = [wave EXCEPT !.head = wave.head + 1] /\ pc' = pc
                ELSE LET ob == FlowingTerrainObstacle(height_field)
                         next == [d \in 1..8 |-> <<cell[1] + WaveDirections[d][1],
                                                   cell[2] + WaveDirections[d][2]>>]
                         added == SelectSeq(next, LAMBDA c : WaveAdds(ob, c, wave.visited))
                     IN  /\ wave' = [wave EXCEPT
                                       !.head = wave.head + 1,
                                       !.queue = wave.queue \o
                                                 [k \in 1..Len(added) |->
                                                    <<added[k][1], added[k][2], current[3] + 1>>],
                                       !.visited = wave.visited \cup
                                                   { added[k] : k \in 1..Len(added) }]
                         /\ pc' = pc
    /\ WaveUnchanged

NextWave ==
    \/ StartWaveSimulation
    \/ WaveStep

SpecWave == InitWave /\ [][NextWave]_vars

Adjacent8(a, b) == a # b /\ Abs(a[1] - b[1]) <= 1 /\ Abs(a[2] - b[2]) <= 1

(* The cells joined to the cell from by a chain of 8-adjacent cells, all   *)
(* of them after the first in open.                                        *)
RECURSIVE WaveConnected(_, _, _)
WaveConnected(open, seen, frontier) ==
    IF frontier = {} THEN seen
    ELSE LET more == { c \in open \ seen : \E f \in frontier : Adjacent8(c, f) }
         IN  WaveConnected(open, seen \cup more, more)

WaveSearched == mode = "wave" /\ pc = "searched"

NoCellTwice(queue) ==
    \A i, j \in 1..Len(queue) :
        i # j => <<queue[i][1], queue[i][2]>> # <<queue[j][1], queue[j][2]>>

----------------------------------------------------------------------------
(* The candidate _generate_valid_terrain commits and the game mode's zones. *)

(* _generate_valid_terrain has returned: the constructor is past it.       *)
TerrainCommitted == spc \in {"terrain_ready", "engine_ready", "constructed"}

----------------------------------------------------------------------------
(* IndivRaceGameMode.get_spawn_positions with the positions looked into:   *)
(* one pass of its outer loop per step, on a spawn zone as the validator   *)
(* in use builds it.                                                       *)

(* (cos, sin) of the multiples of 45 degrees, in thousandths.              *)
UnitCircle == << <<1000, 0>>, <<707, 707>>, <<0, 1000>>, <<-707, 707>>,
                 <<-1000, 0>>, <<-707, -707>>, <<0, -1000>>, <<707, -707>> >>

(* centre + length * (cos, sin) of the k-th multiple of 45 degrees.        *)
OnCircle(z, k, length) ==
    <<z.center_x + (length * UnitCircle[(k % 8) + 1][1]) \div 1000,
      z.center_y + (length * UnitCircle[(k % 8) + 1][2]) \div 1000>>

SpawnCounts == {1, 2, 4, 8}
SpawnZones == { Zone(9600, 9600, spawn_zone_radius) }

(* Zone.get_random_position_in_zone: a point at most 0.9 radius from the   *)
(* centre, in any direction.  The draws are the centre and the rim of that *)
(* disc along the axes.                                                    *)
get_random_position_in_zone(z) ==
    { <<z.center_x, z.center_y>> }
    \cup { OnCircle(z, k, (z.radius * 9) \div 10) : k \in {0, 2, 4, 6} }

(* The test of one attempt: no earlier position is nearer than 2.5 radii.  *)
SpawnValid(positions, p, marble_radius) ==
    \A j \in 1..Len(positions) :
        4 * SquaredDistance(p, positions[j]) >= 25 * marble_radius * marble_radius

(* The for-else branch: marble i (0-based) on the circle of 2 radii round  *)
(* the zone centre, at angle 2 * pi * i / num_marbles.                     *)
SpawnFallback(z, i, num_marbles, marble_radius) ==
    OnCircle(z, (8 * i) \div num_marbles, marble_radius * 2)

InitSpawn ==
    /\ ManagerInit
    /\ SetupIdle
    /\ DetIdle
    /\ TerrainIdle
    /\ StartIdle
    /\ spawn_zone \in {None} \cup { Some(z) : z \in SpawnZones }
    /\ goal_zone = None
    /\ gm_winner_marble_id = None
    /\ marbles = <<>>
    /\ bodies = <<>>
    /\ frame_counter = 0
    /\ rngPos = 0
    /\ mode = "spawn"
    /\ pc = "spawn"
    /\ running = TRUE
    /\ accumulator = 0
    /\ raised = ""
    /\ updateCalls = 0
    /\ lastResult = None

SpawnUnchanged ==
    UNCHANGED <<managerVars, gameModeVars, bodies, frame_counter, mode, running, accumulator,
                updateCalls, setupVars, detVars, terrainVars, startVars, waveVars>>

(* get_spawn_positions(num_marbles, marble_radius) up to its loop          *)
(* (indiv_race.py:39-43).                                                  *)
GetSpawnPositions ==
    /\ pc = "spawn"
    /\ IF IsSome(spawn_zone)
       THEN \E num_marbles \in SpawnCounts :
              /\ lastResult' = Some([num_marbles |-> num_marbles, positions |-> <<>>,
                                     fallback |-> {}])
              /\ pc' = "placing"
              /\ UNCHANGED raised
       ELSE /\ raised' = "ValueError"
            /\ pc' = "failed"
            /\ UNCHANGED lastResult
    /\ UNCHANGED rngPos
    /\ SpawnUnchanged

(* One pass of the outer loop (indiv_race.py:45-66): the first attempt     *)
(* whose position is valid is appended, after 1 to SpawnMaxAttempts        *)
(* attempts; when all SpawnMaxAttempts attempts drew invalid positions the *)
(* fallback position is appended, untested.  The function returns after    *)
(* the last marble.                                                        *)
PlaceMarble ==
    /\ pc = "placing"
    /\ LET r == Get(lastResult)
           z == Get(spawn_zone)
           i == Len(r.positions)
           draws == get_random_position_in_zone(z)
           anyInvalid == \E q \in draws : ~SpawnValid(r.positions, q, MARBLE_RADIUS)
       IN  /\ \/ \E p \in draws : \E attempts \in {1, SpawnMaxAttempts} :
                   /\ SpawnValid(r.positions, p, MARBLE_RADIUS)
                   /\ attempts > 1 => anyInvalid
                   /\ lastResult' = Some([r EXCEPT !.positions = Append(@, p)])
                   /\ rngPos' = rngPos + 2 * attempts
              \/ /\ anyInvalid
                 /\ lastResult' = Some([r EXCEPT
                        !.positions = Append(@, SpawnFallback(z, i, r.num_marbles, MARBLE_RADIUS)),
                        !.fallback = @ \cup {i}])
                 /\ rngPos' = rngPos + 2 * SpawnMaxAttempts
           /\ pc' = IF i + 1 = r.num_marbles THEN "spawned" ELSE "placing"
    /\ UNCHANGED raised
    /\ SpawnUnchanged

NextSpawn ==
    \/ GetSpawnPositions
    \/ PlaceMarble

SpecSpawn == InitSpawn /\ [][NextSpawn]_vars

(* C26: get_spawn_positions returns exactly num_marbles positions, each    *)
(* inside the spawn zone and at least 2.5 marble radii from every other    *)
(* returned position, the fallback placements included.                    *)
C26_SpawnPositionsValid ==
    (mode = "spawn" /\ pc = "spawned") =>
        LET r == Get(lastResult)
            z == Get(spawn_zone)
        IN  /\ Len(r.positions) = r.num_marbles
            /\ \A i \in 1..Len(r.positions) :
                  /\ contains_point(z, r.positions[i][1], r.positions[i][2])
                  /\ \A j \in 1..Len(r.positions) :
                        i # j => 4 * SquaredDistance(r.positions[i], r.positions[j])
                                   >= 25 * MARBLE_RADIUS * MARBLE_RADIUS

----------------------------------------------------------------------------
(* The engine of one manager: update_physics on the manager's list, whose  *)
(* marbles the manager may have moved since the call before.               *)

InitEngine ==
    /\ ManagerInit
    /\ SetupIdle
    /\ DetIdle
    /\ TerrainIdle
    /\ StartIdle
    /\ marbles \in {<<>>} \cup [1..1 -> PhysicsMarbles] \cup {PhysicsPair}
    /\ spawn_zone = None
    /\ goal_zone = None
    /\ gm_winner_marble_id = None
    /\ bodies = <<>>
    /\ frame_counter = 0
    /\ rngPos = 0
    /\ mode = "registry"
    /\ pc = "created"
    /\ running = TRUE
    /\ accumulator = 0
    /\ raised = ""
    /\ updateCalls = 0
    /\ lastResult = None

(* engine.update_physics(FIXED_TIMESTEP, marbles).                         *)
UpdatePhysics ==
    /\ mode = "registry"
    /\ frame_counter < MaxFrames
    /\ \E p \in update_physics(FIXED_TIMESTEP, marbles, bodies, frame_counter, rngPos,
                               ArenaSize, ArenaSize) :
          /\ bodies' = p.bodies
          /\ marbles' = p.marbles
          /\ frame_counter' = p.frame_counter
          /\ rngPos' = p.rngPos
    /\ pc' = "updated"
    /\ UNCHANGED <<simulation_time, game_finished, winner_marble_id, gameModeVars, mode, running,
                   accumulator, raised, updateCalls, lastResult, setupVars, detVars,
                   terrainVars, startVars, waveVars>>

(* Between two calls the owner of the list moves each marble by            *)
(* Marble.update, which the bodies do not see.                             *)
MarblesMoved ==
    /\ mode = "registry"
    /\ pc = "updated"
    /\ marbles # <<>>
    /\ marbles' = [i \in 1..Len(marbles) |->
                      MarbleUpdate(marbles[i], FIXED_TIMESTEP, ArenaSize, ArenaSize)]
    /\ lastResult' = Some(TRUE)
    /\ pc' = "moved"
    /\ UNCHANGED <<simulation_time, game_finished, winner_marble_id, gameModeVars, engineVars,
                   mode, running, accumulator, raised, updateCalls, setupVars, detVars,
                   terrainVars, startVars, waveVars>>

NextEngine ==
    \/ UpdatePhysics
    \/ MarblesMoved

SpecEngine == InitEngine /\ [][NextEngine]_vars

(* C27: after every update_physics call the engine holds exactly one body  *)
(* per marble of the list it was given, the body registered under a        *)
(* marble's id being the one that maps back to that marble, and each       *)
(* marble's position and velocity equal those of its body.                 *)
C27_OneBodyPerMarbleInStep ==
    (mode = "registry" /\ pc = "updated") =>
        /\ Len(bodies) = Len(marbles)
        /\ \A i \in 1..Len(marbles) :
              /\ marbles[i].x = bodies[i].position_x
              /\ marbles[i].y = bodies[i].position_y
              /\ marbles[i].velocity_x = bodies[i].velocity_x
              /\ marbles[i].velocity_y = bodies[i].velocity_y

(* A later call on two marbles that were moved after an earlier call, in   *)
(* which the first body left the corner it started in.                     *)
C27_Witness ==
    /\ mode = "registry"
    /\ pc = "updated"
    /\ frame_counter >= 2
    /\ Len(bodies) = 2
    /\ lastResult = Some(TRUE)
    /\ bodies[1].position_x > 0

----------------------------------------------------------------------------
(* The separation of two overlapping marbles.                              *)

CentreDistance(m1, m2) ==
    SqrtBetween(SquaredDistance(<<m1.x, m1.y>>, <<m2.x, m2.y>>), 0, m1.radius + m2.radius)

Overlapping(m1, m2) ==
    SquaredDistance(<<m1.x, m1.y>>, <<m2.x, m2.y>>)
        < (m1.radius + m2.radius) * (m1.radius + m2.radius)

(* The distance between the centres is at least the position tolerance     *)
(* and the overlap is more than it.                                        *)
OverlappingBeyondTolerance(m1, m2) ==
    /\ SquaredDistance(<<m1.x, m1.y>>, <<m2.x, m2.y>>) >= PositionTolerance * PositionTolerance
    /\ SquaredDistance(<<m1.x, m1.y>>, <<m2.x, m2.y>>)
          < (m1.radius + m2.radius - PositionTolerance)
            * (m1.radius + m2.radius - PositionTolerance)

(* after is before moved by half the penetration of the pair, away from    *)
(* the other marble along the line through the two centres.                *)
MovedHalfPenetration(before, other, after) ==
    LET half == (before.radius + other.radius - CentreDistance(before, other)) \div 2
        mx == after.x - before.x
        my == after.y - before.y
        ax == before.x - other.x
        ay == before.y - other.y
    IN  /\ mx * mx + my * my = half * half
        /\ mx * ay = my * ax
        /\ mx * ax + my * ay > 0

(* relative_speed >= 0: the marbles are not moving toward each other.      *)
NotApproaching(m1, m2) ==
    (m2.velocity_x - m1.velocity_x) * (m2.x - m1.x)
    + (m2.velocity_y - m1.velocity_y) * (m2.y - m1.y) >= 0

SeparatedAsClaimed(before, after) ==
    /\ MovedHalfPenetration(before[1], before[2], after[1])
    /\ MovedHalfPenetration(before[2], before[1], after[2])
    /\ NotApproaching(before[1], before[2]) =>
          \A i \in 1..2 : /\ after[i].velocity_x = before[i].velocity_x
                          /\ after[i].velocity_y = before[i].velocity_y

(* C28 as claimed: whenever two marbles overlap, _resolve_marble_collision *)
(* moves each by half the penetration, in opposite directions along the    *)
(* centre-to-centre axis, and keeps both velocities when the marbles are   *)
(* not moving toward each other.                                           *)
C28_AnyOverlapSeparatedByHalf ==
    (mode = "collision" /\ pc = "marbles resolved"
     /\ Overlapping(Get(lastResult).before[1], Get(lastResult).before[2]))
        => SeparatedAsClaimed(Get(lastResult).before, marbles)

(* C28, amended: the same for marbles whose centres are at least the       *)
(* position tolerance apart and which overlap by more than it.             *)
C28_OverlapSeparatedByHalf ==
    (mode = "collision" /\ pc = "marbles resolved"
     /\ OverlappingBeyondTolerance(Get(lastResult).before[1], Get(lastResult).before[2]))
        => SeparatedAsClaimed(Get(lastResult).before, marbles)

(* A slanted pair moving the same way, so not approaching, was separated   *)
(* and kept its velocities.                                                *)
C28_Witness ==
    /\ mode = "collision"
    /\ pc = "marbles resolved"
    /\ Get(lastResult).returned
    /\ Get(lastResult).before[1].y # Get(lastResult).before[2].y
    /\ NotApproaching(Get(lastResult).before[1], Get(lastResult).before[2])
    /\ marbles[1].x # Get(lastResult).before[1].x
    /\ marbles[1].velocity_x = Get(lastResult).before[1].velocity_x

----------------------------------------------------------------------------
(* The anti-stall heuristic within update_physics.                         *)

(* A velocity that is not (nearly) zero and lies within 2 degrees of the   *)
(* x axis or of the y axis.                                                *)
WithinTwoDegrees(vx, vy) ==
    /\ vx # 0 \/ vy # 0
    /\ \/ 10000 * Abs(vy) < 349 * Abs(vx)
       \/ 10000 * Abs(vx) < 349 * Abs(vy)

(* The bodies update_physics steps: those registered, or one per marble    *)
(* when the counts differ.                                                 *)
BodiesStepped == sync_marbles_to_physics(bodies, marbles)

(* update_physics was called: only it advances the frame counter.          *)
PhysicsStepTaken == frame_counter' = frame_counter + 1

(* Body i ends the call as the solver left it, rescaled to its marble's    *)
(* speed, for the outcome stepped of the solver.                           *)
LeftAsStepped(stepped, i) == bodies'[i] = RestoreBody(stepped[i], marbles[i])

(* The call drew nothing from the stream and left every body as the        *)
(* solver can leave it.                                                    *)
NoPerturbation ==
    /\ rngPos' = rngPos
    /\ Len(bodies') = Len(BodiesStepped)
    /\ \A i \in 1..Len(BodiesStepped) :
          \E o \in BodyOutcomes(BodiesStepped[i], FIXED_TIMESTEP, ArenaSize, ArenaSize) :
              bodies'[i] = RestoreBody(o, marbles[i])

(* Body i ends the call turned off the direction the solver left it with,  *)
(* at its marble's speed.                                                  *)
TurnedFromStepped(stepped, i) ==
    \E sign \in {-1, 1} :
        bodies'[i] = RestoreBody(add_velocity_variation(stepped[i], marbles[i].speed, sign),
                                 marbles[i])

(* The call drew twice for each body the solver left within 2 degrees of   *)
(* an axis, turning it, and left every other body as the solver did.       *)
PerturbedOnlyNearAxis ==
    \E stepped \in SpaceStep(BodiesStepped, FIXED_TIMESTEP, ArenaSize, ArenaSize) :
        /\ rngPos' = rngPos + 2 * Cardinality({ i \in 1..Len(stepped) :
                                  WithinTwoDegrees(stepped[i].velocity_x, stepped[i].velocity_y) })
        /\ Len(bodies') = Len(stepped)
        /\ \A i \in 1..Len(stepped) :
              IF WithinTwoDegrees(stepped[i].velocity_x, stepped[i].velocity_y)
              THEN TurnedFromStepped(stepped, i)
              ELSE LeftAsStepped(stepped, i)

(* C29 as claimed: the heuristic acts only on every 10th step and only on  *)
(* a marble whose velocity has stayed within 2 degrees of an axis for too  *)
(* long, so at the least one that was within 2 degrees when the step       *)
(* began; every other step and marble sees no perturbation and no draw.    *)
C29_PerturbsOnlyLongStuckMarbles ==
    [][PhysicsStepTaken =>
          /\ frame_counter' % StuckCheckInterval # 0 => NoPerturbation
          /\ frame_counter' % StuckCheckInterval = 0 =>
                /\ PerturbedOnlyNearAxis
                /\ rngPos' # rngPos =>
                      \E i \in 1..Len(BodiesStepped) :
                          WithinTwoDegrees(BodiesStepped[i].velocity_x,
                                           BodiesStepped[i].velocity_y)]_vars

(* C29, amended: the heuristic acts only on every 10th step and only on a  *)
(* marble whose velocity is, after that step's solver pass, within 2       *)
(* degrees of an axis, however long it has been so; every other step and   *)
(* marble sees no perturbation and no draw.                                *)
C29_PerturbsOnlyNearAxisOnTenthStep ==
    [][PhysicsStepTaken =>
          /\ frame_counter' % StuckCheckInterval # 0 => NoPerturbation
          /\ frame_counter' % StuckCheckInterval = 0 => PerturbedOnlyNearAxis]_vars

(* The tenth step of two marbles drew for exactly one of them.             *)
C29_Witness ==
    /\ mode = "engine"
    /\ frame_counter = StuckCheckInterval
    /\ Len(bodies) = 2
    /\ rngPos = 2

====
